---- MODULE Spec2Model ----
(***************************************************************************)
(* The PROJ reference-system registry, data/sql/proj_db_table_defs.sql:    *)
(* the tables, their BEFORE INSERT / INSTEAD OF INSERT triggers, their     *)
(* column and key constraints, and the views the triggers consult.         *)
(*                                                                         *)
(* The state is the database (one set of rows per table) and the outcome   *)
(* of the last INSERT statement.  One action per INSERT statement: the     *)
(* triggers run first, in the order the file lists their SELECT RAISE      *)
(* steps; then the NOT NULL, CHECK and PRIMARY KEY constraints of the row; *)
(* then the immediate foreign keys.  The first failure aborts the          *)
(* statement and leaves every table as it was.                             *)
(*                                                                         *)
(* Columns that no trigger, key, constraint between rows or view reads     *)
(* (name, description, scope, conv_factor, operation_version, ...) are not *)
(* modelled: every row is taken to carry admissible values for them.       *)
(* FLOAT columns carry integers.                                           *)
(***************************************************************************)
EXTENDS Integers, Sequences, FiniteSets, TLC

VARIABLES db, last

vars == <<db, last>>

-----------------------------------------------------------------------------
(* SQL values and three-valued logic.                                      *)

\* SQL NULL in a TEXT column.
NULL == "NULL"

\* SQL NULL in a FLOAT, SMALLINT or BOOLEAN column.
NullNum == 0 - 999

\* The outcome of a statement that raised nothing.
OK == "OK"

T3 == "T"

F3 == "F"

U3 == "U"

B3(b) == IF b THEN T3 ELSE F3

Not3(p) == IF p = T3 THEN F3 ELSE IF p = F3 THEN T3 ELSE U3

And3(p, q) == IF p = F3 \/ q = F3 THEN F3 ELSE IF p = U3 \/ q = U3 THEN U3 ELSE T3

Or3(p, q) == IF p = T3 \/ q = T3 THEN T3 ELSE IF p = U3 \/ q = U3 THEN U3 ELSE F3

\* a = b, a != b, a IN (list), a NOT IN (list) on TEXT values.
EqT(a, b) == IF a = NULL \/ b = NULL THEN U3 ELSE B3(a = b)

NeT(a, b) == Not3(EqT(a, b))

InT(a, list) == IF a = NULL THEN U3 ELSE B3(a \in list)

NotInT(a, list) == Not3(InT(a, list))

\* a = b, a != b, a <= b, a > b, a >= b on numbers.
EqN(a, b) == IF a = NullNum \/ b = NullNum THEN U3 ELSE B3(a = b)

NeN(a, b) == Not3(EqN(a, b))

LeN(a, b) == IF a = NullNum \/ b = NullNum THEN U3 ELSE B3(a <= b)

GtN(a, b) == Not3(LeN(a, b))

GeN(a, b) == LeN(b, a)

\* a BETWEEN lo AND hi.
BetweenN(a, lo, hi) == And3(GeN(a, lo), LeN(a, hi))

\* a + b with NULL propagation.
AddN(a, b) == IF a = NullNum \/ b = NullNum THEN NullNum ELSE a + b

SubN(a, b) == IF a = NullNum \/ b = NullNum THEN NullNum ELSE a - b

\* A WHERE clause selects, and a CHECK constraint fails, on these.
IsTrue(p) == p = T3

CheckFails(p) == p = F3

\* The rows of a table with the given (auth_name, code).
Lookup(table, auth_name, code) ==
    {r \in table : IsTrue(And3(EqT(r.auth_name, auth_name), EqT(r.code, code)))}

\* (SELECT column FROM table WHERE ...): the column of the row, NULL without one.
ScalarT(rows, column) == IF rows = {} THEN NULL ELSE (CHOOSE r \in rows : TRUE)[column]

ScalarN(rows, column) == IF rows = {} THEN NullNum ELSE (CHOOSE r \in rows : TRUE)[column]

\* EXISTS(SELECT 1 FROM table WHERE auth_name = .. AND code = .. AND deprecated != 0)
ExistsDeprecated(table, auth_name, code) ==
    \E r \in Lookup(table, auth_name, code) : IsTrue(NeN(r.deprecated, 0))

\* An immediate FOREIGN KEY (auth_name, code) REFERENCES parent: a key with a
\* NULL column is not checked.
FkHolds(parent, auth_name, code) ==
    auth_name = NULL \/ code = NULL \/ Lookup(parent, auth_name, code) # {}

\* The message of the first rule that raises, of <<raises, message>> pairs.
RECURSIVE FirstError(_)
FirstError(rules) ==
    IF rules = <<>> THEN OK
    ELSE IF Head(rules)[1] THEN Head(rules)[2]
    ELSE FirstError(Tail(rules))

\* The rules but the one with the given message.
Without(rules, message) == SelectSeq(rules, LAMBDA r : r[2] # message)

\* The triggers of a statement run before the constraints of its row.
Then(e1, e2) == IF e1 # OK THEN e1 ELSE e2

ForeignKeyFailed == "FOREIGN KEY constraint failed"

-----------------------------------------------------------------------------
(* unit_of_measure, celestial_body                                         *)

unit_of_measure_constraints(d, new) ==
    FirstError(<<
        <<new.auth_name = NULL, "NOT NULL constraint failed: unit_of_measure.auth_name">>,
        <<new.code = NULL, "NOT NULL constraint failed: unit_of_measure.code">>,
        <<new.type = NULL, "NOT NULL constraint failed: unit_of_measure.type">>,
        <<new.deprecated = NullNum, "NOT NULL constraint failed: unit_of_measure.deprecated">>,
        <<CheckFails(InT(new.type, {"length", "angle", "scale", "time"})),
          "CHECK constraint failed: unit_of_measure">>,
        <<CheckFails(B3(new.deprecated \in {0, 1})), "CHECK constraint failed: unit_of_measure">>,
        <<Lookup(d.unit_of_measure, new.auth_name, new.code) # {},
          "UNIQUE constraint failed: unit_of_measure.auth_name, unit_of_measure.code">>
    >>)

celestial_body_constraints(d, new) ==
    FirstError(<<
        <<new.auth_name = NULL, "NOT NULL constraint failed: celestial_body.auth_name">>,
        <<new.code = NULL, "NOT NULL constraint failed: celestial_body.code">>,
        <<Lookup(d.celestial_body, new.auth_name, new.code) # {},
          "UNIQUE constraint failed: celestial_body.auth_name, celestial_body.code">>
    >>)

\* INSERT INTO celestial_body VALUES('PROJ', 'EARTH', 'Earth', 6378137.0);
Earth == [auth_name |-> "PROJ", code |-> "EARTH"]

-----------------------------------------------------------------------------
(* ellipsoid                                                               *)

ellipsoid_insert_trigger_neither_only(d, new) ==
    FirstError(<<
        <<IsTrue(And3(B3(new.inv_flattening = NullNum), B3(new.semi_minor_axis = NullNum))),
          "insert on ellipsoid violates constraint: inv_flattening (exclusive) or semi_minor_axis should be defined">>,
        <<IsTrue(NeT(ScalarT(Lookup(d.unit_of_measure, new.uom_auth_name, new.uom_code), "type"),
                     "length")),
          "insert on ellipsoid violates constraint: uom should be of type 'length'">>
    >>)

\* A variant that runs the unit step before the shape step.
ellipsoid_insert_trigger_unit_rule_first(d, new) ==
    FirstError(<<
        <<IsTrue(NeT(ScalarT(Lookup(d.unit_of_measure, new.uom_auth_name, new.uom_code), "type"),
                     "length")),
          "insert on ellipsoid violates constraint: uom should be of type 'length'">>,
        <<IsTrue(Or3(And3(B3(new.inv_flattening = NullNum), B3(new.semi_minor_axis = NullNum)),
                     And3(B3(new.inv_flattening # NullNum), B3(new.semi_minor_axis # NullNum)))),
          "insert on ellipsoid violates constraint: inv_flattening (exclusive) or semi_minor_axis should be defined">>
    >>)

ellipsoid_insert_trigger(d, new) ==
    FirstError(<<
        <<IsTrue(Or3(And3(B3(new.inv_flattening = NullNum), B3(new.semi_minor_axis = NullNum)),
                     And3(B3(new.inv_flattening # NullNum), B3(new.semi_minor_axis # NullNum)))),
          "insert on ellipsoid violates constraint: inv_flattening (exclusive) or semi_minor_axis should be defined">>,
        <<IsTrue(NeT(ScalarT(Lookup(d.unit_of_measure, new.uom_auth_name, new.uom_code), "type"),
                     "length")),
          "insert on ellipsoid violates constraint: uom should be of type 'length'">>
    >>)

ellipsoid_constraints_steps(d, new) ==
    <<
        <<new.auth_name = NULL, "NOT NULL constraint failed: ellipsoid.auth_name">>,
        <<new.code = NULL, "NOT NULL constraint failed: ellipsoid.code">>,
        <<new.celestial_body_auth_name = NULL,
          "NOT NULL constraint failed: ellipsoid.celestial_body_auth_name">>,
        <<new.celestial_body_code = NULL,
          "NOT NULL constraint failed: ellipsoid.celestial_body_code">>,
        <<new.semi_major_axis = NullNum, "NOT NULL constraint failed: ellipsoid.semi_major_axis">>,
        <<new.uom_auth_name = NULL, "NOT NULL constraint failed: ellipsoid.uom_auth_name">>,
        <<new.uom_code = NULL, "NOT NULL constraint failed: ellipsoid.uom_code">>,
        <<new.deprecated = NullNum, "NOT NULL constraint failed: ellipsoid.deprecated">>,
        <<CheckFails(GtN(new.semi_major_axis, 0)), "CHECK constraint failed: ellipsoid">>,
        <<CheckFails(Or3(EqN(new.inv_flattening, 0), GeN(new.inv_flattening, 1))),
          "CHECK constraint failed: ellipsoid">>,
        <<CheckFails(And3(GtN(new.semi_minor_axis, 0),
                          LeN(new.semi_minor_axis, new.semi_major_axis))),
          "CHECK constraint failed: ellipsoid">>,
        <<CheckFails(B3(new.deprecated \in {0, 1})), "CHECK constraint failed: ellipsoid">>,
        <<Lookup(d.ellipsoid, new.auth_name, new.code) # {},
          "UNIQUE constraint failed: ellipsoid.auth_name, ellipsoid.code">>,
        <<~FkHolds(d.celestial_body, new.celestial_body_auth_name, new.celestial_body_code),
          ForeignKeyFailed>>,
        <<~FkHolds(d.unit_of_measure, new.uom_auth_name, new.uom_code), ForeignKeyFailed>>
    >>

\* A variant without the primary key.
ellipsoid_constraints_without_key(d, new) ==
    FirstError(Without(ellipsoid_constraints_steps(d, new),
                       "UNIQUE constraint failed: ellipsoid.auth_name, ellipsoid.code"))

ellipsoid_constraints(d, new) == FirstError(ellipsoid_constraints_steps(d, new))

ellipsoid_insert(d, new) == Then(ellipsoid_insert_trigger(d, new), ellipsoid_constraints(d, new))

-----------------------------------------------------------------------------
(* area                                                                    *)

area_insert_trigger_no_latitude_rule(d, new) ==
    FirstError(<<
        <<IsTrue(Not3(Or3(LeN(new.west_lon, new.east_lon),
                          LeN(SubN(AddN(new.east_lon, 360), new.west_lon), 200)))),
          "insert on area violates constraint: west_lon <= east_lon OR (east_lon + 360 - west_lon <= 200)">>
    >>)

area_insert_trigger(d, new) ==
    FirstError(<<
        <<IsTrue(GtN(new.south_lat, new.north_lat)),
          "insert on area violates constraint: south_lat <= north_lat">>,
        <<IsTrue(Not3(Or3(LeN(new.west_lon, new.east_lon),
                          LeN(SubN(AddN(new.east_lon, 360), new.west_lon), 200)))),
          "insert on area violates constraint: west_lon <= east_lon OR (east_lon + 360 - west_lon <= 200)">>
    >>)

area_constraints(d, new) ==
    FirstError(<<
        <<new.auth_name = NULL, "NOT NULL constraint failed: area.auth_name">>,
        <<new.code = NULL, "NOT NULL constraint failed: area.code">>,
        <<new.deprecated = NullNum, "NOT NULL constraint failed: area.deprecated">>,
        <<CheckFails(BetweenN(new.south_lat, 0 - 90, 90)), "CHECK constraint failed: area">>,
        <<CheckFails(BetweenN(new.north_lat, 0 - 90, 90)), "CHECK constraint failed: area">>,
        <<CheckFails(BetweenN(new.west_lon, 0 - 180, 180)), "CHECK constraint failed: area">>,
        <<CheckFails(BetweenN(new.east_lon, 0 - 180, 180)), "CHECK constraint failed: area">>,
        <<CheckFails(B3(new.deprecated \in {0, 1})), "CHECK constraint failed: area">>,
        <<Lookup(d.area, new.auth_name, new.code) # {},
          "UNIQUE constraint failed: area.auth_name, area.code">>
    >>)

area_insert(d, new) == Then(area_insert_trigger(d, new), area_constraints(d, new))

-----------------------------------------------------------------------------
(* prime_meridian                                                          *)

prime_meridian_insert_trigger(d, new) ==
    FirstError(<<
        <<IsTrue(NeT(ScalarT(Lookup(d.unit_of_measure, new.uom_auth_name, new.uom_code), "type"),
                     "angle")),
          "insert on prime_meridian violates constraint: uom should be of type 'angle'">>
    >>)

prime_meridian_constraints(d, new) ==
    FirstError(<<
        <<new.auth_name = NULL, "NOT NULL constraint failed: prime_meridian.auth_name">>,
        <<new.code = NULL, "NOT NULL constraint failed: prime_meridian.code">>,
        <<new.longitude = NullNum, "NOT NULL constraint failed: prime_meridian.longitude">>,
        <<new.uom_auth_name = NULL, "NOT NULL constraint failed: prime_meridian.uom_auth_name">>,
        <<new.uom_code = NULL, "NOT NULL constraint failed: prime_meridian.uom_code">>,
        <<new.deprecated = NullNum, "NOT NULL constraint failed: prime_meridian.deprecated">>,
        <<CheckFails(BetweenN(new.longitude, 0 - 180, 180)),
          "CHECK constraint failed: prime_meridian">>,
        <<CheckFails(B3(new.deprecated \in {0, 1})), "CHECK constraint failed: prime_meridian">>,
        <<Lookup(d.prime_meridian, new.auth_name, new.code) # {},
          "UNIQUE constraint failed: prime_meridian.auth_name, prime_meridian.code">>,
        <<~FkHolds(d.unit_of_measure, new.uom_auth_name, new.uom_code), ForeignKeyFailed>>
    >>)

prime_meridian_insert(d, new) ==
    Then(prime_meridian_insert_trigger(d, new), prime_meridian_constraints(d, new))

-----------------------------------------------------------------------------
(* geodetic_datum, vertical_datum                                          *)

geodetic_datum_insert_trigger_no_ellipsoid_rule(d, new) ==
    FirstError(<<
        <<ExistsDeprecated(d.prime_meridian, new.prime_meridian_auth_name, new.prime_meridian_code)
              /\ IsTrue(EqN(new.deprecated, 0)),
          "insert on geodetic_datum violates constraint: prime_meridian must not be deprecated when geodetic_datum is not deprecated">>,
        <<ExistsDeprecated(d.area, new.area_of_use_auth_name, new.area_of_use_code)
              /\ IsTrue(EqN(new.deprecated, 0)),
          "insert on geodetic_datum violates constraint: area_of_use must not be deprecated when geodetic_datum is not deprecated">>
    >>)

geodetic_datum_insert_trigger(d, new) ==
    FirstError(<<
        <<ExistsDeprecated(d.ellipsoid, new.ellipsoid_auth_name, new.ellipsoid_code)
              /\ IsTrue(EqN(new.deprecated, 0)),
          "insert on geodetic_datum violates constraint: ellipsoid must not be deprecated when geodetic_datum is not deprecated">>,
        <<ExistsDeprecated(d.prime_meridian, new.prime_meridian_auth_name, new.prime_meridian_code)
              /\ IsTrue(EqN(new.deprecated, 0)),
          "insert on geodetic_datum violates constraint: prime_meridian must not be deprecated when geodetic_datum is not deprecated">>,
        <<ExistsDeprecated(d.area, new.area_of_use_auth_name, new.area_of_use_code)
              /\ IsTrue(EqN(new.deprecated, 0)),
          "insert on geodetic_datum violates constraint: area_of_use must not be deprecated when geodetic_datum is not deprecated">>
    >>)

geodetic_datum_constraints(d, new) ==
    FirstError(<<
        <<new.auth_name = NULL, "NOT NULL constraint failed: geodetic_datum.auth_name">>,
        <<new.code = NULL, "NOT NULL constraint failed: geodetic_datum.code">>,
        <<new.ellipsoid_auth_name = NULL,
          "NOT NULL constraint failed: geodetic_datum.ellipsoid_auth_name">>,
        <<new.ellipsoid_code = NULL, "NOT NULL constraint failed: geodetic_datum.ellipsoid_code">>,
        <<new.prime_meridian_auth_name = NULL,
          "NOT NULL constraint failed: geodetic_datum.prime_meridian_auth_name">>,
        <<new.prime_meridian_code = NULL,
          "NOT NULL constraint failed: geodetic_datum.prime_meridian_code">>,
        <<new.area_of_use_auth_name = NULL,
          "NOT NULL constraint failed: geodetic_datum.area_of_use_auth_name">>,
        <<new.area_of_use_code = NULL,
          "NOT NULL constraint failed: geodetic_datum.area_of_use_code">>,
        <<new.deprecated = NullNum, "NOT NULL constraint failed: geodetic_datum.deprecated">>,
        <<CheckFails(B3(new.deprecated \in {0, 1})), "CHECK constraint failed: geodetic_datum">>,
        <<Lookup(d.geodetic_datum, new.auth_name, new.code) # {},
          "UNIQUE constraint failed: geodetic_datum.auth_name, geodetic_datum.code">>,
        <<~FkHolds(d.ellipsoid, new.ellipsoid_auth_name, new.ellipsoid_code), ForeignKeyFailed>>,
        <<~FkHolds(d.prime_meridian, new.prime_meridian_auth_name, new.prime_meridian_code),
          ForeignKeyFailed>>,
        <<~FkHolds(d.area, new.area_of_use_auth_name, new.area_of_use_code), ForeignKeyFailed>>
    >>)

geodetic_datum_insert(d, new) ==
    Then(geodetic_datum_insert_trigger(d, new), geodetic_datum_constraints(d, new))

vertical_datum_insert_trigger(d, new) ==
    FirstError(<<
        <<ExistsDeprecated(d.area, new.area_of_use_auth_name, new.area_of_use_code)
              /\ IsTrue(EqN(new.deprecated, 0)),
          "insert on vertical_datum violates constraint: area_of_use must not be deprecated when vertical_datum is not deprecated">>
    >>)

vertical_datum_constraints(d, new) ==
    FirstError(<<
        <<new.auth_name = NULL, "NOT NULL constraint failed: vertical_datum.auth_name">>,
        <<new.code = NULL, "NOT NULL constraint failed: vertical_datum.code">>,
        <<new.area_of_use_auth_name = NULL,
          "NOT NULL constraint failed: vertical_datum.area_of_use_auth_name">>,
        <<new.area_of_use_code = NULL,
          "NOT NULL constraint failed: vertical_datum.area_of_use_code">>,
        <<new.deprecated = NullNum, "NOT NULL constraint failed: vertical_datum.deprecated">>,
        <<CheckFails(B3(new.deprecated \in {0, 1})), "CHECK constraint failed: vertical_datum">>,
        <<Lookup(d.vertical_datum, new.auth_name, new.code) # {},
          "UNIQUE constraint failed: vertical_datum.auth_name, vertical_datum.code">>,
        <<~FkHolds(d.area, new.area_of_use_auth_name, new.area_of_use_code), ForeignKeyFailed>>
    >>)

vertical_datum_insert(d, new) ==
    Then(vertical_datum_insert_trigger(d, new), vertical_datum_constraints(d, new))

-----------------------------------------------------------------------------
(* The views the triggers consult.                                         *)

\* crs_view: the four CRS tables under one (auth_name, code) namespace.
crs_view(d) ==
    {[table_name |-> "geodetic_crs", auth_name |-> r.auth_name, code |-> r.code,
      type |-> r.type, area_of_use_auth_name |-> r.area_of_use_auth_name,
      area_of_use_code |-> r.area_of_use_code, deprecated |-> r.deprecated] : r \in d.geodetic_crs}
    \cup
    {[table_name |-> "projected_crs", auth_name |-> r.auth_name, code |-> r.code,
      type |-> "projected", area_of_use_auth_name |-> r.area_of_use_auth_name,
      area_of_use_code |-> r.area_of_use_code, deprecated |-> r.deprecated] : r \in d.projected_crs}
    \cup
    {[table_name |-> "vertical_crs", auth_name |-> r.auth_name, code |-> r.code,
      type |-> "vertical", area_of_use_auth_name |-> r.area_of_use_auth_name,
      area_of_use_code |-> r.area_of_use_code, deprecated |-> r.deprecated] : r \in d.vertical_crs}
    \cup
    {[table_name |-> "compound_crs", auth_name |-> r.auth_name, code |-> r.code,
      type |-> "compound", area_of_use_auth_name |-> r.area_of_use_auth_name,
      area_of_use_code |-> r.area_of_use_code, deprecated |-> r.deprecated] : r \in d.compound_crs}

\* One SELECT of coordinate_operation_view.
OperationRows(table_name, rows) ==
    {[table_name |-> table_name, auth_name |-> r.auth_name, code |-> r.code,
      source_crs_auth_name |-> r.source_crs_auth_name, source_crs_code |-> r.source_crs_code,
      target_crs_auth_name |-> r.target_crs_auth_name, target_crs_code |-> r.target_crs_code,
      area_of_use_auth_name |-> r.area_of_use_auth_name,
      area_of_use_code |-> r.area_of_use_code, accuracy |-> r.accuracy,
      deprecated |-> r.deprecated] : r \in rows}

\* helmert_transformation: the table LEFT JOINed with its method's name.
helmert_transformation(d) ==
    {[f \in DOMAIN h \cup {"method_name"} |->
         IF f = "method_name"
         THEN ScalarT(Lookup(d.coordinate_operation_method, h.method_auth_name, h.method_code),
                      "name")
         ELSE h[f]] : h \in d.helmert_transformation_table}

coordinate_operation_view(d) ==
    OperationRows("grid_transformation", d.grid_transformation)
    \cup OperationRows("helmert_transformation", helmert_transformation(d))
    \cup OperationRows("other_transformation", d.other_transformation)
    \cup OperationRows("concatenated_operation", d.concatenated_operation)

coordinate_operation_with_conversion_view(d) ==
    {[auth_name |-> r.auth_name, code |-> r.code, type |-> r.table_name] :
        r \in coordinate_operation_view(d)}
    \cup
    {[auth_name |-> r.auth_name, code |-> r.code, type |-> "conversion"] :
        r \in d.conversion_table}

\* conversion: conversion_table LEFT JOINed with the names of its method and
\* of its seven parameters.
conversion(d) ==
    {[f \in DOMAIN c \cup {"method_name"} |->
         IF f = "method_name"
         THEN ScalarT(Lookup(d.conversion_method, c.method_auth_name, c.method_code), "name")
         ELSE IF f = "param"
         THEN [i \in DOMAIN c.param |->
                  [g \in DOMAIN c.param[i] \cup {"name"} |->
                      IF g = "name"
                      THEN ScalarT(Lookup(d.conversion_param, c.param[i].auth_name,
                                          c.param[i].code), "name")
                      ELSE c.param[i][g]]]
         ELSE c[f]] : c \in d.conversion_table}

\* (auth_name IS NULL OR code IS NULL) of a reference.
Undefined(auth_name, code) == auth_name = NULL \/ code = NULL

-----------------------------------------------------------------------------
(* coordinate_system                                                       *)

coordinate_system_insert_trigger(d, new) ==
    FirstError(<<
        <<IsTrue(And3(EqT(new.type, "vertical"), NeN(new.dimension, 1))),
          "insert on coordinate_system violates constraint: dimension must be equal to 1 for type = 'vertical'">>,
        <<IsTrue(And3(EqT(new.type, "Cartesian"),
                      IF new.dimension = NullNum THEN U3 ELSE B3(new.dimension \notin {2, 3}))),
          "insert on coordinate_system violates constraint: dimension must be equal to 2 or 3 for type = 'Cartesian'">>,
        <<IsTrue(And3(EqT(new.type, "ellipsoidal"),
                      IF new.dimension = NullNum THEN U3 ELSE B3(new.dimension \notin {2, 3}))),
          "insert on coordinate_system violates constraint: dimension must be equal to 2 or 3 for type = 'ellipsoidal'">>
    >>)

coordinate_system_constraints(d, new) ==
    FirstError(<<
        <<new.auth_name = NULL, "NOT NULL constraint failed: coordinate_system.auth_name">>,
        <<new.code = NULL, "NOT NULL constraint failed: coordinate_system.code">>,
        <<new.type = NULL, "NOT NULL constraint failed: coordinate_system.type">>,
        <<new.dimension = NullNum, "NOT NULL constraint failed: coordinate_system.dimension">>,
        <<CheckFails(InT(new.type, {"Cartesian", "vertical", "ellipsoidal", "spherical"})),
          "CHECK constraint failed: coordinate_system">>,
        <<CheckFails(BetweenN(new.dimension, 1, 3)), "CHECK constraint failed: coordinate_system">>,
        <<Lookup(d.coordinate_system, new.auth_name, new.code) # {},
          "UNIQUE constraint failed: coordinate_system.auth_name, coordinate_system.code">>
    >>)

coordinate_system_insert(d, new) ==
    Then(coordinate_system_insert_trigger(d, new), coordinate_system_constraints(d, new))

-----------------------------------------------------------------------------
(* geodetic_crs, vertical_crs                                              *)

CrsExistsMessage(table) ==
    "insert on " \o table \o " violates constraint: (auth_name, code) must not already exist in crs_view"

\* (SELECT type / dimension FROM coordinate_system WHERE auth_name = .. AND code = ..)
CsType(d, auth_name, code) == ScalarT(Lookup(d.coordinate_system, auth_name, code), "type")

CsDimension(d, auth_name, code) ==
    ScalarN(Lookup(d.coordinate_system, auth_name, code), "dimension")

geodetic_crs_insert_trigger_steps(d, new) ==
    <<
        <<Lookup(crs_view(d), new.auth_name, new.code) # {}, CrsExistsMessage("geodetic_crs")>>,
        <<Undefined(new.coordinate_system_auth_name, new.coordinate_system_code)
              /\ new.text_definition = NULL,
          "insert on geodetic_crs violates constraint: coordinate_system must be defined when text_definition is NULL">>,
        <<Undefined(new.datum_auth_name, new.datum_code) /\ new.text_definition = NULL,
          "insert on geodetic_crs violates constraint: datum must be defined when text_definition is NULL">>,
        <<~Undefined(new.coordinate_system_auth_name, new.coordinate_system_code)
              /\ new.text_definition # NULL,
          "insert on geodetic_crs violates constraint: coordinate_system must NOT be defined when text_definition is NOT NULL">>,
        <<~Undefined(new.datum_auth_name, new.datum_code) /\ new.text_definition # NULL,
          "insert on geodetic_crs violates constraint: datum must NOT be defined when text_definition is NOT NULL">>,
        <<ExistsDeprecated(d.geodetic_datum, new.datum_auth_name, new.datum_code)
              /\ IsTrue(EqN(new.deprecated, 0)) /\ new.text_definition # NULL,
          "insert on geodetic_crs violates constraint: datum must not be deprecated when geodetic_crs is not deprecated">>,
        <<Undefined(new.area_of_use_auth_name, new.area_of_use_code) /\ new.text_definition = NULL,
          "insert on geodetic_crs violates constraint: area_of_use must be defined when text_definition is NULL">>,
        <<ExistsDeprecated(d.area, new.area_of_use_auth_name, new.area_of_use_code)
              /\ IsTrue(EqN(new.deprecated, 0)) /\ new.text_definition # NULL,
          "insert on geodetic_crs violates constraint: area_of_use must not be deprecated when geodetic_crs is not deprecated">>,
        <<IsTrue(And3(EqT(new.type, "geocentric"),
                      NeN(CsDimension(d, new.coordinate_system_auth_name,
                                      new.coordinate_system_code), 3))),
          "insert on geodetic_crs violates constraint: coordinate_system.dimension must be 3 for type = 'geocentric'">>,
        <<IsTrue(And3(EqT(new.type, "geocentric"),
                      NeT(CsType(d, new.coordinate_system_auth_name, new.coordinate_system_code),
                          "Cartesian"))),
          "insert on geodetic_crs violates constraint: coordinate_system.type must be 'Cartesian' for type = 'geocentric'">>,
        <<IsTrue(And3(InT(new.type, {"geographic 2D", "geographic 3D"}),
                      NeT(CsType(d, new.coordinate_system_auth_name, new.coordinate_system_code),
                          "ellipsoidal"))),
          "insert on geodetic_crs violates constraint: coordinate_system.type must be 'ellipsoidal'  for type = 'geographic 2D' or 'geographic 3D'">>,
        <<IsTrue(And3(And3(EqT(new.type, "geographic 2D"), NeN(new.deprecated, 1)),
                      NeN(CsDimension(d, new.coordinate_system_auth_name,
                                      new.coordinate_system_code), 2))),
          "insert on geodetic_crs violates constraint: coordinate_system.dimension must be 2 for type = 'geographic 2D'">>,
        <<IsTrue(And3(EqT(new.type, "geographic 3D"),
                      NeN(CsDimension(d, new.coordinate_system_auth_name,
                                      new.coordinate_system_code), 3))),
          "insert on geodetic_crs violates constraint: coordinate_system.dimension must be 3 for type = 'geographic 3D'">>
    >>

\* A variant without the step that forbids a datum beside a text_definition.
geodetic_crs_insert_trigger_without_datum_exclusion(d, new) ==
    FirstError(Without(geodetic_crs_insert_trigger_steps(d, new),
                       "insert on geodetic_crs violates constraint: datum must NOT be defined when text_definition is NOT NULL"))

\* A variant without the step on the dimension of a geographic 3D CRS.
geodetic_crs_insert_trigger_without_geographic_3d_dimension(d, new) ==
    FirstError(Without(geodetic_crs_insert_trigger_steps(d, new),
                       "insert on geodetic_crs violates constraint: coordinate_system.dimension must be 3 for type = 'geographic 3D'"))

geodetic_crs_insert_trigger(d, new) == FirstError(geodetic_crs_insert_trigger_steps(d, new))

geodetic_crs_constraints(d, new) ==
    FirstError(<<
        <<new.auth_name = NULL, "NOT NULL constraint failed: geodetic_crs.auth_name">>,
        <<new.code = NULL, "NOT NULL constraint failed: geodetic_crs.code">>,
        <<new.type = NULL, "NOT NULL constraint failed: geodetic_crs.type">>,
        <<new.deprecated = NullNum, "NOT NULL constraint failed: geodetic_crs.deprecated">>,
        <<CheckFails(InT(new.type, {"geographic 2D", "geographic 3D", "geocentric"})),
          "CHECK constraint failed: geodetic_crs">>,
        <<CheckFails(B3(new.deprecated \in {0, 1})), "CHECK constraint failed: geodetic_crs">>,
        <<Lookup(d.geodetic_crs, new.auth_name, new.code) # {},
          "UNIQUE constraint failed: geodetic_crs.auth_name, geodetic_crs.code">>,
        <<~FkHolds(d.coordinate_system, new.coordinate_system_auth_name,
                   new.coordinate_system_code), ForeignKeyFailed>>,
        <<~FkHolds(d.geodetic_datum, new.datum_auth_name, new.datum_code), ForeignKeyFailed>>,
        <<~FkHolds(d.area, new.area_of_use_auth_name, new.area_of_use_code), ForeignKeyFailed>>
    >>)

geodetic_crs_insert(d, new) ==
    Then(geodetic_crs_insert_trigger(d, new), geodetic_crs_constraints(d, new))

\* The deprecated-datum step reads the table vertical_crs under the alias datum.
vertical_crs_insert_trigger(d, new) ==
    FirstError(<<
        <<Lookup(crs_view(d), new.auth_name, new.code) # {}, CrsExistsMessage("vertical_crs")>>,
        <<ExistsDeprecated(d.vertical_crs, new.datum_auth_name, new.datum_code)
              /\ IsTrue(EqN(new.deprecated, 0)),
          "insert on vertical_crs violates constraint: datum must not be deprecated when vertical_crs is not deprecated">>,
        <<ExistsDeprecated(d.area, new.area_of_use_auth_name, new.area_of_use_code)
              /\ IsTrue(EqN(new.deprecated, 0)),
          "insert on vertical_crs violates constraint: area_of_use must not be deprecated when vertical_crs is not deprecated">>,
        <<IsTrue(NeT(CsType(d, new.coordinate_system_auth_name, new.coordinate_system_code),
                     "vertical")),
          "insert on vertical_crs violates constraint: coordinate_system.type must be 'vertical'">>,
        <<IsTrue(NeN(CsDimension(d, new.coordinate_system_auth_name, new.coordinate_system_code),
                     1)),
          "insert on vertical_crs violates constraint: coordinate_system.dimension must be 1">>
    >>)

vertical_crs_constraints(d, new) ==
    FirstError(<<
        <<new.auth_name = NULL, "NOT NULL constraint failed: vertical_crs.auth_name">>,
        <<new.code = NULL, "NOT NULL constraint failed: vertical_crs.code">>,
        <<new.coordinate_system_auth_name = NULL,
          "NOT NULL constraint failed: vertical_crs.coordinate_system_auth_name">>,
        <<new.coordinate_system_code = NULL,
          "NOT NULL constraint failed: vertical_crs.coordinate_system_code">>,
        <<new.datum_auth_name = NULL, "NOT NULL constraint failed: vertical_crs.datum_auth_name">>,
        <<new.datum_code = NULL, "NOT NULL constraint failed: vertical_crs.datum_code">>,
        <<new.area_of_use_auth_name = NULL,
          "NOT NULL constraint failed: vertical_crs.area_of_use_auth_name">>,
        <<new.area_of_use_code = NULL,
          "NOT NULL constraint failed: vertical_crs.area_of_use_code">>,
        <<new.deprecated = NullNum, "NOT NULL constraint failed: vertical_crs.deprecated">>,
        <<CheckFails(B3(new.deprecated \in {0, 1})), "CHECK constraint failed: vertical_crs">>,
        <<Lookup(d.vertical_crs, new.auth_name, new.code) # {},
          "UNIQUE constraint failed: vertical_crs.auth_name, vertical_crs.code">>,
        <<~FkHolds(d.coordinate_system, new.coordinate_system_auth_name,
                   new.coordinate_system_code), ForeignKeyFailed>>,
        <<~FkHolds(d.vertical_datum, new.datum_auth_name, new.datum_code), ForeignKeyFailed>>,
        <<~FkHolds(d.area, new.area_of_use_auth_name, new.area_of_use_code), ForeignKeyFailed>>
    >>)

vertical_crs_insert(d, new) ==
    Then(vertical_crs_insert_trigger(d, new), vertical_crs_constraints(d, new))

-----------------------------------------------------------------------------
(* conversion_method, conversion_param, conversion_table and the INSTEAD   *)
(* OF INSERT triggers of the view conversion.  A conversion row carries    *)
(* its param1 .. param7 columns as param[1] .. param[7].                   *)

\* The registered vocabulary of conversion_method_insert_trigger.
KnownMethods ==
    {"EPSG_1024_Popular Visualisation Pseudo Mercator",
     "EPSG_1027_Lambert Azimuthal Equal Area (Spherical)",
     "EPSG_1028_Equidistant Cylindrical",
     "EPSG_1029_Equidistant Cylindrical (Spherical)",
     "EPSG_1041_Krovak (North Orientated)",
     "EPSG_1042_Krovak Modified",
     "EPSG_1043_Krovak Modified (North Orientated)",
     "EPSG_1051_Lambert Conic Conformal (2SP Michigan)",
     "EPSG_1052_Colombia Urban",
     "EPSG_1068_Height Depth Reversal",
     "EPSG_1069_Change of Vertical Unit",
     "EPSG_1078_Equal Earth",
     "EPSG_9602_Geographic/geocentric conversions",
     "EPSG_9659_Geographic3D to 2D conversion",
     "EPSG_9801_Lambert Conic Conformal (1SP)",
     "EPSG_9802_Lambert Conic Conformal (2SP)",
     "EPSG_9803_Lambert Conic Conformal (2SP Belgium)",
     "EPSG_9804_Mercator (variant A)",
     "EPSG_9805_Mercator (variant B)",
     "EPSG_9806_Cassini-Soldner",
     "EPSG_9807_Transverse Mercator",
     "EPSG_9808_Transverse Mercator (South Orientated)",
     "EPSG_9809_Oblique Stereographic",
     "EPSG_9810_Polar Stereographic (variant A)",
     "EPSG_9811_New Zealand Map Grid",
     "EPSG_9812_Hotine Oblique Mercator (variant A)",
     "EPSG_9813_Laborde Oblique Mercator",
     "EPSG_9815_Hotine Oblique Mercator (variant B)",
     "EPSG_9816_Tunisia Mining Grid",
     "EPSG_9817_Lambert Conic Near-Conformal",
     "EPSG_9818_American Polyconic",
     "EPSG_9819_Krovak",
     "EPSG_9820_Lambert Azimuthal Equal Area",
     "EPSG_9821_Lambert Azimuthal Equal Area (Spherical)",
     "EPSG_9822_Albers Equal Area",
     "EPSG_9823_Equidistant Cylindrical (Spherical)",
     "EPSG_9824_Transverse Mercator Zoned Grid System",
     "EPSG_9826_Lambert Conic Conformal (West Orientated)",
     "EPSG_9828_Bonne (South Orientated)",
     "EPSG_9829_Polar Stereographic (variant B)",
     "EPSG_9830_Polar Stereographic (variant C)",
     "EPSG_9831_Guam Projection",
     "EPSG_9832_Modified Azimuthal Equidistant",
     "EPSG_9833_Hyperbolic Cassini-Soldner",
     "EPSG_9834_Lambert Cylindrical Equal Area (Spherical)",
     "EPSG_9835_Lambert Cylindrical Equal Area",
     "EPSG_9836_Geocentric/topocentric conversions",
     "EPSG_9837_Geographic/topocentric conversions",
     "EPSG_9838_Vertical Perspective",
     "EPSG_9841_Mercator (1SP) (Spherical)",
     "EPSG_9842_Equidistant Cylindrical",
     "EPSG_9843_Axis Order Reversal (2D)",
     "EPSG_9844_Axis Order Reversal (Geographic3D horizontal)",
     "EPSG_9827_Bonne",
     "PROJ_gstm_Gauss Schreiber Transverse Mercator",
     "PROJ_mill_PROJ mill"}

\* a || b: NULL when either is.
ConcatT(a, b) == IF a = NULL \/ b = NULL THEN NULL ELSE a \o b

\* A variant that admits every method.
conversion_method_insert_trigger_admits_all(d, new) == OK

conversion_method_insert_trigger(d, new) ==
    FirstError(<<
        <<IsTrue(NotInT(ConcatT(ConcatT(ConcatT(ConcatT(new.auth_name, "_"), new.code), "_"),
                                new.name), KnownMethods)),
          "insert on conversion violates constraint: method should be known">>
    >>)

conversion_method_constraints(d, new) ==
    FirstError(<<
        <<new.auth_name = NULL, "NOT NULL constraint failed: conversion_method.auth_name">>,
        <<new.code = NULL, "NOT NULL constraint failed: conversion_method.code">>,
        <<new.name = NULL, "NOT NULL constraint failed: conversion_method.name">>,
        <<Lookup(d.conversion_method, new.auth_name, new.code) # {},
          "UNIQUE constraint failed: conversion_method.auth_name, conversion_method.code">>
    >>)

conversion_method_insert(d, new) ==
    Then(conversion_method_insert_trigger(d, new), conversion_method_constraints(d, new))

\* A variant without NOT NULL on conversion_param.code.
conversion_param_constraints_nullable_code(d, new) ==
    FirstError(<<
        <<new.auth_name = NULL, "NOT NULL constraint failed: conversion_param.auth_name">>,
        <<new.name = NULL, "NOT NULL constraint failed: conversion_param.name">>,
        <<Lookup(d.conversion_param, new.auth_name, new.code) # {},
          "UNIQUE constraint failed: conversion_param.auth_name, conversion_param.code">>
    >>)

conversion_param_constraints(d, new) ==
    FirstError(<<
        <<new.auth_name = NULL, "NOT NULL constraint failed: conversion_param.auth_name">>,
        <<new.code = NULL, "NOT NULL constraint failed: conversion_param.code">>,
        <<new.name = NULL, "NOT NULL constraint failed: conversion_param.name">>,
        <<Lookup(d.conversion_param, new.auth_name, new.code) # {},
          "UNIQUE constraint failed: conversion_param.auth_name, conversion_param.code">>
    >>)

OperationExistsMessage(table) ==
    "insert on " \o table \o " violates constraint: (auth_name, code) must not already exist in coordinate_operation_with_conversion_view"

conversion_table_insert_trigger(d, new) ==
    FirstError(<<
        <<Lookup(coordinate_operation_with_conversion_view(d), new.auth_name, new.code) # {},
          OperationExistsMessage("conversion_table")>>
    >>)

conversion_table_constraints(d, new) ==
    FirstError(<<
        <<new.auth_name = NULL, "NOT NULL constraint failed: conversion_table.auth_name">>,
        <<new.code = NULL, "NOT NULL constraint failed: conversion_table.code">>,
        <<new.area_of_use_auth_name = NULL,
          "NOT NULL constraint failed: conversion_table.area_of_use_auth_name">>,
        <<new.area_of_use_code = NULL,
          "NOT NULL constraint failed: conversion_table.area_of_use_code">>,
        <<new.deprecated = NullNum, "NOT NULL constraint failed: conversion_table.deprecated">>,
        <<CheckFails(B3(new.deprecated \in {0, 1})), "CHECK constraint failed: conversion_table">>,
        <<Lookup(d.conversion_table, new.auth_name, new.code) # {},
          "UNIQUE constraint failed: conversion_table.auth_name, conversion_table.code">>,
        <<~FkHolds(d.area, new.area_of_use_auth_name, new.area_of_use_code), ForeignKeyFailed>>,
        <<~FkHolds(d.conversion_method, new.method_auth_name, new.method_code),
          ForeignKeyFailed>>,
        <<\E i \in DOMAIN new.param :
              ~FkHolds(d.unit_of_measure, new.param[i].uom_auth_name, new.param[i].uom_code),
          ForeignKeyFailed>>
    >>)

conversion_table_insert(d, new) ==
    Then(conversion_table_insert_trigger(d, new), conversion_table_constraints(d, new))

\* A statement under way: the database so far and the first failure.
Running(d) == [d |-> d, err |-> OK]

\* NOT EXISTS (SELECT 1 FROM table m WHERE m.auth_name = .. AND m.code = .. AND m.name = ..)
NotKnownByName(table, auth_name, code, name) ==
    ~\E m \in table :
        IsTrue(And3(And3(EqT(m.auth_name, auth_name), EqT(m.code, code)), EqT(m.name, name)))

\* conversion_insert_trigger_method
conversion_insert_trigger_method(s, new) ==
    LET m == [auth_name |-> new.method_auth_name, code |-> new.method_code,
              name |-> new.method_name]
        e == conversion_method_insert(s.d, m)
    IN  IF s.err # OK
             \/ ~NotKnownByName(s.d.conversion_method, m.auth_name, m.code, m.name)
        THEN s
        ELSE IF e # OK THEN [s EXCEPT !.err = e]
        ELSE [s EXCEPT !.d.conversion_method = @ \cup {m}]

\* conversion_insert_trigger_param1 .. conversion_insert_trigger_param7
conversion_insert_trigger_param(s, new, i) ==
    LET p == [auth_name |-> new.param[i].auth_name, code |-> new.param[i].code,
              name |-> new.param[i].name]
        e == conversion_param_constraints(s.d, p)
    IN  IF s.err # OK \/ p.auth_name = NULL
             \/ ~NotKnownByName(s.d.conversion_param, p.auth_name, p.code, p.name)
        THEN s
        ELSE IF e # OK THEN [s EXCEPT !.err = e]
        ELSE [s EXCEPT !.d.conversion_param = @ \cup {p}]

RECURSIVE conversion_insert_trigger_params(_, _, _)
conversion_insert_trigger_params(s, new, i) ==
    IF i > Len(new.param) THEN s
    ELSE conversion_insert_trigger_params(conversion_insert_trigger_param(s, new, i), new, i + 1)

\* The row of conversion_table: the view's row without the joined names.
ConversionTableRow(new) ==
    [f \in DOMAIN new \ {"method_name"} |->
        IF f = "param"
        THEN [i \in DOMAIN new.param |->
                 [g \in DOMAIN new.param[i] \ {"name"} |-> new.param[i][g]]]
        ELSE new[f]]

\* conversion_insert_trigger_insert_into_conversion_table
conversion_insert_trigger_insert_into_conversion_table(s, new) ==
    LET c == ConversionTableRow(new)
        e == conversion_table_insert(s.d, c)
    IN  IF s.err # OK THEN s
        ELSE IF e # OK THEN [s EXCEPT !.err = e]
        ELSE [s EXCEPT !.d.conversion_table = @ \cup {c}]

\* INSERT INTO conversion: the INSTEAD OF triggers in the order the file
\* creates them.  Each either completes or aborts the statement, and the
\* foreign keys are checked when the statement ends, so whether the
\* statement succeeds does not depend on that order.
conversion_insert(d, new) ==
    conversion_insert_trigger_insert_into_conversion_table(
        conversion_insert_trigger_params(
            conversion_insert_trigger_method(Running(d), new), new, 1), new)

-----------------------------------------------------------------------------
(* projected_crs, compound_crs                                             *)

\* The step "geodetic_crs must NOT be defined when text_definition is NOT
\* NULL" is commented out in the file, and so is no step here.
projected_crs_insert_trigger_steps(d, new) ==
    <<
        <<Lookup(crs_view(d), new.auth_name, new.code) # {}, CrsExistsMessage("projected_crs")>>,
        <<Undefined(new.coordinate_system_auth_name, new.coordinate_system_code)
              /\ new.text_definition = NULL,
          "insert on projected_crs violates constraint: coordinate_system must be defined when text_definition is NULL">>,
        <<Undefined(new.geodetic_crs_auth_name, new.geodetic_crs_code)
              /\ new.text_definition = NULL,
          "insert on projected_crs violates constraint: geodetic_crs must be defined when text_definition is NULL">>,
        <<ExistsDeprecated(d.geodetic_crs, new.geodetic_crs_auth_name, new.geodetic_crs_code)
              /\ IsTrue(And3(EqN(new.deprecated, 0),
                             Not3(And3(EqT(new.auth_name, "ESRI"),
                                       NeT(new.geodetic_crs_auth_name, "ESRI"))))),
          "insert on projected_crs violates constraint: geodetic_crs must not be deprecated when projected_crs is not deprecated">>,
        <<Lookup(conversion(d), new.conversion_auth_name, new.conversion_code) = {}
              /\ new.text_definition = NULL,
          "insert on projected_crs violates constraint: conversion must exist when text_definition is NULL">>,
        <<ExistsDeprecated(conversion(d), new.conversion_auth_name, new.conversion_code)
              /\ IsTrue(EqN(new.deprecated, 0)),
          "insert on projected_crs violates constraint: conversion must not be deprecated when projected_crs is not deprecated">>,
        <<~Undefined(new.coordinate_system_auth_name, new.coordinate_system_code)
              /\ new.text_definition # NULL,
          "insert on projected_crs violates constraint: coordinate_system must NOT be defined when text_definition is NOT NULL">>,
        <<~Undefined(new.conversion_auth_name, new.conversion_code) /\ new.text_definition # NULL,
          "insert on projected_crs violates constraint: conversion must NOT be defined when text_definition is NULL">>,
        <<Undefined(new.area_of_use_auth_name, new.area_of_use_code) /\ new.text_definition = NULL,
          "insert on projected_crs violates constraint: area_of_use must be defined when text_definition is NULL">>,
        <<ExistsDeprecated(d.area, new.area_of_use_auth_name, new.area_of_use_code)
              /\ IsTrue(EqN(new.deprecated, 0)) /\ new.text_definition # NULL,
          "insert on projected_crs violates constraint: area_of_use must not be deprecated when projected_crs is not deprecated">>,
        <<IsTrue(NeT(CsType(d, new.coordinate_system_auth_name, new.coordinate_system_code),
                     "Cartesian")),
          "insert on projected_crs violates constraint: coordinate_system.type must be 'cartesian'">>,
        <<IsTrue(And3(Not3(And3(EqT(new.coordinate_system_auth_name, "EPSG"),
                                EqT(new.coordinate_system_code, "4461"))),
                      NeN(CsDimension(d, new.coordinate_system_auth_name,
                                      new.coordinate_system_code), 2))),
          "insert on projected_crs violates constraint: coordinate_system.dimension must be 2">>
    >>

\* A variant without the step that forbids a conversion beside a text_definition.
projected_crs_insert_trigger_without_conversion_exclusion(d, new) ==
    FirstError(Without(projected_crs_insert_trigger_steps(d, new),
                       "insert on projected_crs violates constraint: conversion must NOT be defined when text_definition is NULL"))

\* A variant without the step on the dimension of the coordinate system.
projected_crs_insert_trigger_without_dimension(d, new) ==
    FirstError(Without(projected_crs_insert_trigger_steps(d, new),
                       "insert on projected_crs violates constraint: coordinate_system.dimension must be 2"))

projected_crs_insert_trigger(d, new) == FirstError(projected_crs_insert_trigger_steps(d, new))

projected_crs_constraints(d, new) ==
    FirstError(<<
        <<new.auth_name = NULL, "NOT NULL constraint failed: projected_crs.auth_name">>,
        <<new.code = NULL, "NOT NULL constraint failed: projected_crs.code">>,
        <<new.deprecated = NullNum, "NOT NULL constraint failed: projected_crs.deprecated">>,
        <<CheckFails(B3(new.deprecated \in {0, 1})), "CHECK constraint failed: projected_crs">>,
        <<Lookup(d.projected_crs, new.auth_name, new.code) # {},
          "UNIQUE constraint failed: projected_crs.auth_name, projected_crs.code">>,
        <<~FkHolds(d.coordinate_system, new.coordinate_system_auth_name,
                   new.coordinate_system_code), ForeignKeyFailed>>,
        <<~FkHolds(d.geodetic_crs, new.geodetic_crs_auth_name, new.geodetic_crs_code),
          ForeignKeyFailed>>,
        <<~FkHolds(d.conversion_table, new.conversion_auth_name, new.conversion_code),
          ForeignKeyFailed>>,
        <<~FkHolds(d.area, new.area_of_use_auth_name, new.area_of_use_code), ForeignKeyFailed>>
    >>)

projected_crs_insert(d, new) ==
    Then(projected_crs_insert_trigger(d, new), projected_crs_constraints(d, new))

\* (SELECT type FROM crs_view WHERE auth_name = .. AND code = ..)
CrsType(d, auth_name, code) == ScalarT(Lookup(crs_view(d), auth_name, code), "type")

compound_crs_insert_trigger_steps(d, new) ==
    <<
        <<Lookup(crs_view(d), new.auth_name, new.code) # {}, CrsExistsMessage("compound_crs")>>,
        <<Lookup(crs_view(d), new.horiz_crs_auth_name, new.horiz_crs_code) = {},
          "insert on compound_crs violates constraint: horiz_crs(auth_name, code) not found">>,
        <<IsTrue(NotInT(CrsType(d, new.horiz_crs_auth_name, new.horiz_crs_code),
                        {"geographic 2D", "projected"})),
          "insert on compound_crs violates constraint: horiz_crs must be equal to 'geographic 2D' or 'projected'">>,
        <<IsTrue(NotInT(CrsType(d, new.vertical_crs_auth_name, new.vertical_crs_code),
                        {"vertical"})),
          "insert on compound_crs violates constraint: vertical_crs must be equal to 'vertical'">>,
        <<ExistsDeprecated(crs_view(d), new.horiz_crs_auth_name, new.horiz_crs_code)
              /\ IsTrue(EqN(new.deprecated, 0)),
          "insert on compound_crs violates constraint: horiz_crs must not be deprecated when compound_crs is not deprecated">>,
        <<ExistsDeprecated(d.vertical_crs, new.vertical_crs_auth_name, new.vertical_crs_code)
              /\ IsTrue(EqN(new.deprecated, 0)),
          "insert on compound_crs violates constraint: vertical_crs must not be deprecated when compound_crs is not deprecated">>,
        <<ExistsDeprecated(d.area, new.area_of_use_auth_name, new.area_of_use_code)
              /\ IsTrue(EqN(new.deprecated, 0)),
          "insert on compound_crs violates constraint: area_of_use must not be deprecated when compound_crs is not deprecated">>
    >>

\* A variant without the step that consults crs_view for the new key.
compound_crs_insert_trigger_without_namespace(d, new) ==
    FirstError(Without(compound_crs_insert_trigger_steps(d, new),
                       CrsExistsMessage("compound_crs")))

\* A variant without the step on the type of the horizontal component.
compound_crs_insert_trigger_without_horiz_type(d, new) ==
    FirstError(Without(compound_crs_insert_trigger_steps(d, new),
                       "insert on compound_crs violates constraint: horiz_crs must be equal to 'geographic 2D' or 'projected'"))

compound_crs_insert_trigger(d, new) == FirstError(compound_crs_insert_trigger_steps(d, new))

compound_crs_constraints(d, new) ==
    FirstError(<<
        <<new.auth_name = NULL, "NOT NULL constraint failed: compound_crs.auth_name">>,
        <<new.code = NULL, "NOT NULL constraint failed: compound_crs.code">>,
        <<new.horiz_crs_auth_name = NULL,
          "NOT NULL constraint failed: compound_crs.horiz_crs_auth_name">>,
        <<new.horiz_crs_code = NULL, "NOT NULL constraint failed: compound_crs.horiz_crs_code">>,
        <<new.vertical_crs_auth_name = NULL,
          "NOT NULL constraint failed: compound_crs.vertical_crs_auth_name">>,
        <<new.vertical_crs_code = NULL,
          "NOT NULL constraint failed: compound_crs.vertical_crs_code">>,
        <<new.area_of_use_auth_name = NULL,
          "NOT NULL constraint failed: compound_crs.area_of_use_auth_name">>,
        <<new.area_of_use_code = NULL,
          "NOT NULL constraint failed: compound_crs.area_of_use_code">>,
        <<new.deprecated = NullNum, "NOT NULL constraint failed: compound_crs.deprecated">>,
        <<CheckFails(B3(new.deprecated \in {0, 1})), "CHECK constraint failed: compound_crs">>,
        <<Lookup(d.compound_crs, new.auth_name, new.code) # {},
          "UNIQUE constraint failed: compound_crs.auth_name, compound_crs.code">>,
        <<~FkHolds(d.vertical_crs, new.vertical_crs_auth_name, new.vertical_crs_code),
          ForeignKeyFailed>>,
        <<~FkHolds(d.area, new.area_of_use_auth_name, new.area_of_use_code), ForeignKeyFailed>>
    >>)

compound_crs_insert(d, new) ==
    Then(compound_crs_insert_trigger(d, new), compound_crs_constraints(d, new))

-----------------------------------------------------------------------------
(* coordinate_operation_method, helmert_transformation_table and the       *)
(* INSTEAD OF INSERT triggers of the view helmert_transformation           *)

\* (SELECT type FROM unit_of_measure WHERE auth_name = .. AND code = ..)
UomType(d, auth_name, code) == ScalarT(Lookup(d.unit_of_measure, auth_name, code), "type")

coordinate_operation_method_constraints(d, new) ==
    FirstError(<<
        <<new.auth_name = NULL, "NOT NULL constraint failed: coordinate_operation_method.auth_name">>,
        <<new.code = NULL, "NOT NULL constraint failed: coordinate_operation_method.code">>,
        <<new.name = NULL, "NOT NULL constraint failed: coordinate_operation_method.name">>,
        <<Lookup(d.coordinate_operation_method, new.auth_name, new.code) # {},
          "UNIQUE constraint failed: coordinate_operation_method.auth_name, coordinate_operation_method.code">>
    >>)

helmert_transformation_insert_trigger(d, new) ==
    FirstError(<<
        <<Lookup(coordinate_operation_with_conversion_view(d), new.auth_name, new.code) # {},
          OperationExistsMessage("helmert_transformation")>>,
        <<IsTrue(NeT(UomType(d, new.translation_uom_auth_name, new.translation_uom_code),
                     "length")),
          "insert on helmert_transformation violates constraint: translation_uom.type must be 'length'">>,
        <<IsTrue(NeT(UomType(d, new.rotation_uom_auth_name, new.rotation_uom_code), "angle")),
          "insert on helmert_transformation violates constraint: rotation_uom.type must be 'angle'">>,
        <<IsTrue(NeT(UomType(d, new.scale_difference_uom_auth_name,
                             new.scale_difference_uom_code), "scale")),
          "insert on helmert_transformation violates constraint: scale_difference_uom.type must be 'scale'">>,
        <<IsTrue(NeT(UomType(d, new.rate_translation_uom_auth_name,
                             new.rate_translation_uom_code), "length")),
          "insert on helmert_transformation violates constraint: rate_translation_uom.type must be 'length'">>,
        <<IsTrue(NeT(UomType(d, new.rate_rotation_uom_auth_name, new.rate_rotation_uom_code),
                     "angle")),
          "insert on helmert_transformation violates constraint: rate_rotation_uom.type must be 'angle'">>,
        <<IsTrue(NeT(UomType(d, new.rate_scale_difference_uom_auth_name,
                             new.rate_scale_difference_uom_code), "scale")),
          "insert on helmert_transformation violates constraint: rate_scale_difference_uom.type must be 'scale'">>,
        <<IsTrue(NeT(UomType(d, new.epoch_uom_auth_name, new.epoch_uom_code), "time")),
          "insert on helmert_transformation violates constraint: epoch_uom.type must be 'time'">>,
        <<IsTrue(NeT(UomType(d, new.pivot_uom_auth_name, new.pivot_uom_code), "length")),
          "insert on helmert_transformation violates constraint: pivot_uom.type must be 'length'">>,
        <<ExistsDeprecated(d.geodetic_crs, new.source_crs_auth_name, new.source_crs_code)
              /\ IsTrue(And3(EqN(new.deprecated, 0), Not3(EqT(new.auth_name, "ESRI")))),
          "insert on helmert_transformation violates constraint: source_crs must not be deprecated when helmert_transformation is not deprecated">>,
        <<ExistsDeprecated(d.geodetic_crs, new.target_crs_auth_name, new.target_crs_code)
              /\ IsTrue(And3(EqN(new.deprecated, 0), Not3(EqT(new.auth_name, "ESRI")))),
          "insert on helmert_transformation violates constraint: target_crs must not be deprecated when helmert_transformation is not deprecated">>,
        <<ExistsDeprecated(d.area, new.area_of_use_auth_name, new.area_of_use_code)
              /\ IsTrue(EqN(new.deprecated, 0)),
          "insert on helmert_transformation violates constraint: area_of_use must not be deprecated when helmert_transformation is not deprecated">>
    >>)

\* The NOT NULL and CHECK constraints on the columns that every operation
\* table but conversion_table has.
OperationColumnConstraints(table, new) ==
    FirstError(<<
        <<new.auth_name = NULL, "NOT NULL constraint failed: " \o table \o ".auth_name">>,
        <<new.code = NULL, "NOT NULL constraint failed: " \o table \o ".code">>,
        <<new.source_crs_auth_name = NULL,
          "NOT NULL constraint failed: " \o table \o ".source_crs_auth_name">>,
        <<new.source_crs_code = NULL,
          "NOT NULL constraint failed: " \o table \o ".source_crs_code">>,
        <<new.target_crs_auth_name = NULL,
          "NOT NULL constraint failed: " \o table \o ".target_crs_auth_name">>,
        <<new.target_crs_code = NULL,
          "NOT NULL constraint failed: " \o table \o ".target_crs_code">>,
        <<new.area_of_use_auth_name = NULL,
          "NOT NULL constraint failed: " \o table \o ".area_of_use_auth_name">>,
        <<new.area_of_use_code = NULL,
          "NOT NULL constraint failed: " \o table \o ".area_of_use_code">>,
        <<new.deprecated = NullNum, "NOT NULL constraint failed: " \o table \o ".deprecated">>,
        <<CheckFails(GeN(new.accuracy, 0)), "CHECK constraint failed: " \o table>>,
        <<CheckFails(B3(new.deprecated \in {0, 1})), "CHECK constraint failed: " \o table>>
    >>)

helmert_transformation_table_constraints(d, new) ==
    FirstError(<<
        <<OperationColumnConstraints("helmert_transformation_table", new) # OK,
          OperationColumnConstraints("helmert_transformation_table", new)>>,
        <<new.method_auth_name = NULL,
          "NOT NULL constraint failed: helmert_transformation_table.method_auth_name">>,
        <<new.method_code = NULL,
          "NOT NULL constraint failed: helmert_transformation_table.method_code">>,
        <<new.tx = NullNum, "NOT NULL constraint failed: helmert_transformation_table.tx">>,
        <<new.ty = NullNum, "NOT NULL constraint failed: helmert_transformation_table.ty">>,
        <<new.tz = NullNum, "NOT NULL constraint failed: helmert_transformation_table.tz">>,
        <<new.translation_uom_auth_name = NULL,
          "NOT NULL constraint failed: helmert_transformation_table.translation_uom_auth_name">>,
        <<new.translation_uom_code = NULL,
          "NOT NULL constraint failed: helmert_transformation_table.translation_uom_code">>,
        <<Lookup(d.helmert_transformation_table, new.auth_name, new.code) # {},
          "UNIQUE constraint failed: helmert_transformation_table.auth_name, helmert_transformation_table.code">>,
        <<~FkHolds(d.geodetic_crs, new.source_crs_auth_name, new.source_crs_code),
          ForeignKeyFailed>>,
        <<~FkHolds(d.geodetic_crs, new.target_crs_auth_name, new.target_crs_code),
          ForeignKeyFailed>>,
        <<~FkHolds(d.area, new.area_of_use_auth_name, new.area_of_use_code), ForeignKeyFailed>>,
        <<~FkHolds(d.coordinate_operation_method, new.method_auth_name, new.method_code),
          ForeignKeyFailed>>,
        <<~FkHolds(d.unit_of_measure, new.translation_uom_auth_name, new.translation_uom_code)
              \/ ~FkHolds(d.unit_of_measure, new.rotation_uom_auth_name, new.rotation_uom_code)
              \/ ~FkHolds(d.unit_of_measure, new.scale_difference_uom_auth_name,
                          new.scale_difference_uom_code)
              \/ ~FkHolds(d.unit_of_measure, new.rate_translation_uom_auth_name,
                          new.rate_translation_uom_code)
              \/ ~FkHolds(d.unit_of_measure, new.rate_rotation_uom_auth_name,
                          new.rate_rotation_uom_code)
              \/ ~FkHolds(d.unit_of_measure, new.rate_scale_difference_uom_auth_name,
                          new.rate_scale_difference_uom_code)
              \/ ~FkHolds(d.unit_of_measure, new.epoch_uom_auth_name, new.epoch_uom_code)
              \/ ~FkHolds(d.unit_of_measure, new.pivot_uom_auth_name, new.pivot_uom_code),
          ForeignKeyFailed>>
    >>)

helmert_transformation_table_insert(d, new) ==
    Then(helmert_transformation_insert_trigger(d, new),
         helmert_transformation_table_constraints(d, new))

\* helmert_transformation_insert_trigger_method
helmert_transformation_insert_trigger_method(s, new) ==
    LET m == [auth_name |-> new.method_auth_name, code |-> new.method_code,
              name |-> new.method_name]
        e == coordinate_operation_method_constraints(s.d, m)
    IN  IF s.err # OK
             \/ ~NotKnownByName(s.d.coordinate_operation_method, m.auth_name, m.code, m.name)
        THEN s
        ELSE IF e # OK THEN [s EXCEPT !.err = e]
        ELSE [s EXCEPT !.d.coordinate_operation_method = @ \cup {m}]

\* helmert_transformation_insert_trigger_into_helmert_transformation_table
helmert_transformation_insert_trigger_into_helmert_transformation_table(s, new) ==
    LET h == [f \in DOMAIN new \ {"method_name"} |-> new[f]]
        e == helmert_transformation_table_insert(s.d, h)
    IN  IF s.err # OK THEN s
        ELSE IF e # OK THEN [s EXCEPT !.err = e]
        ELSE [s EXCEPT !.d.helmert_transformation_table = @ \cup {h}]

\* INSERT INTO helmert_transformation: as for the view conversion.
helmert_transformation_insert(d, new) ==
    helmert_transformation_insert_trigger_into_helmert_transformation_table(
        helmert_transformation_insert_trigger_method(Running(d), new), new)

-----------------------------------------------------------------------------
(* grid_transformation, other_transformation, concatenated_operation       *)

\* The steps on source_crs and target_crs that grid_transformation,
\* other_transformation and concatenated_operation share: <<raises, message>>.
CrsNotFound(d, table, new, end) ==
    <<Lookup(crs_view(d), new[end \o "_crs_auth_name"], new[end \o "_crs_code"]) = {},
      "insert on " \o table \o " violates constraint: " \o end \o "_crs(auth_name, code) not found">>

\* A variant without the exemption of the authority ESRI.
CrsDeprecatedWithoutExemption(d, table, new, end) ==
    <<ExistsDeprecated(crs_view(d), new[end \o "_crs_auth_name"], new[end \o "_crs_code"])
          /\ IsTrue(EqN(new.deprecated, 0)),
      "insert on " \o table \o " violates constraint: " \o end \o "_crs must not be deprecated when " \o table \o " is not deprecated">>

CrsDeprecated(d, table, new, end) ==
    <<ExistsDeprecated(crs_view(d), new[end \o "_crs_auth_name"], new[end \o "_crs_code"])
          /\ IsTrue(And3(EqN(new.deprecated, 0), Not3(EqT(new.auth_name, "ESRI")))),
      "insert on " \o table \o " violates constraint: " \o end \o "_crs must not be deprecated when " \o table \o " is not deprecated">>

AreaDeprecated(d, table, new) ==
    <<ExistsDeprecated(d.area, new.area_of_use_auth_name, new.area_of_use_code)
          /\ IsTrue(EqN(new.deprecated, 0)),
      "insert on " \o table \o " violates constraint: area_of_use must not be deprecated when " \o table \o " is not deprecated">>

grid_transformation_insert_trigger_steps(d, new) ==
    <<
        <<Lookup(coordinate_operation_with_conversion_view(d), new.auth_name, new.code) # {},
          OperationExistsMessage("grid_transformation")>>,
        CrsNotFound(d, "grid_transformation", new, "source"),
        CrsNotFound(d, "grid_transformation", new, "target"),
        CrsDeprecated(d, "grid_transformation", new, "source"),
        CrsDeprecated(d, "grid_transformation", new, "target"),
        AreaDeprecated(d, "grid_transformation", new)
    >>

\* A variant without the step that consults coordinate_operation_with_conversion_view for the new key.
grid_transformation_insert_trigger_without_namespace(d, new) ==
    FirstError(Without(grid_transformation_insert_trigger_steps(d, new),
                       OperationExistsMessage("grid_transformation")))

grid_transformation_insert_trigger(d, new) == FirstError(grid_transformation_insert_trigger_steps(d, new))

grid_transformation_constraints(d, new) ==
    FirstError(<<
        <<OperationColumnConstraints("grid_transformation", new) # OK,
          OperationColumnConstraints("grid_transformation", new)>>,
        <<new.method_auth_name = NULL,
          "NOT NULL constraint failed: grid_transformation.method_auth_name">>,
        <<new.method_code = NULL, "NOT NULL constraint failed: grid_transformation.method_code">>,
        <<new.method_name = NULL, "NOT NULL constraint failed: grid_transformation.method_name">>,
        <<new.grid_name = NULL, "NOT NULL constraint failed: grid_transformation.grid_name">>,
        <<Lookup(d.grid_transformation, new.auth_name, new.code) # {},
          "UNIQUE constraint failed: grid_transformation.auth_name, grid_transformation.code">>,
        <<~FkHolds(d.geodetic_crs, new.interpolation_crs_auth_name,
                   new.interpolation_crs_code), ForeignKeyFailed>>,
        <<~FkHolds(d.area, new.area_of_use_auth_name, new.area_of_use_code), ForeignKeyFailed>>
    >>)

grid_transformation_insert(d, new) ==
    Then(grid_transformation_insert_trigger(d, new), grid_transformation_constraints(d, new))

other_transformation_insert_trigger(d, new) ==
    FirstError(<<
        <<Lookup(coordinate_operation_with_conversion_view(d), new.auth_name, new.code) # {},
          OperationExistsMessage("other_transformation")>>,
        CrsNotFound(d, "other_transformation", new, "source"),
        CrsNotFound(d, "other_transformation", new, "target"),
        <<IsTrue(And3(EqT(new.method_auth_name, "PROJ"),
                      NotInT(new.method_code, {"PROJString", "WKT"}))),
          "insert on other_transformation violates constraint: method_code should be in (PROJString, WKT) when method_auth_name = PROJ">>,
        CrsDeprecated(d, "other_transformation", new, "source"),
        CrsDeprecated(d, "other_transformation", new, "target"),
        AreaDeprecated(d, "other_transformation", new)
    >>)

other_transformation_constraints(d, new) ==
    FirstError(<<
        <<OperationColumnConstraints("other_transformation", new) # OK,
          OperationColumnConstraints("other_transformation", new)>>,
        <<new.method_auth_name = NULL,
          "NOT NULL constraint failed: other_transformation.method_auth_name">>,
        <<new.method_code = NULL, "NOT NULL constraint failed: other_transformation.method_code">>,
        <<new.method_name = NULL, "NOT NULL constraint failed: other_transformation.method_name">>,
        <<Lookup(d.other_transformation, new.auth_name, new.code) # {},
          "UNIQUE constraint failed: other_transformation.auth_name, other_transformation.code">>,
        <<~FkHolds(d.area, new.area_of_use_auth_name, new.area_of_use_code), ForeignKeyFailed>>,
        <<\E i \in DOMAIN new.param :
              ~FkHolds(d.unit_of_measure, new.param[i].uom_auth_name, new.param[i].uom_code),
          ForeignKeyFailed>>
    >>)

other_transformation_insert(d, new) ==
    Then(other_transformation_insert_trigger(d, new), other_transformation_constraints(d, new))

\* The steps of concatenated_operation_insert_trigger on its step n.
StepNotFound(d, new, n) ==
    <<Lookup(coordinate_operation_with_conversion_view(d),
             new[n \o "_auth_name"], new[n \o "_code"]) = {},
      "insert on concatenated_operation violates constraint: " \o n \o "(auth_name, code) must already exist in coordinate_operation_with_conversion_view">>

StepIsConcatenated(d, new, n) ==
    <<Lookup(d.concatenated_operation, new[n \o "_auth_name"], new[n \o "_code"]) # {},
      "insert on concatenated_operation violates constraint: " \o n \o " should not be a concatenated_operation">>

concatenated_operation_insert_trigger_steps(d, new) ==
    <<
        <<Lookup(coordinate_operation_with_conversion_view(d), new.auth_name, new.code) # {},
          OperationExistsMessage("concatenated_operation")>>,
        StepNotFound(d, new, "step1"),
        StepNotFound(d, new, "step2"),
        <<new.step3_auth_name # NULL /\ StepNotFound(d, new, "step3")[1],
          StepNotFound(d, new, "step3")[2]>>,
        CrsNotFound(d, "concatenated_operation", new, "source"),
        CrsNotFound(d, "concatenated_operation", new, "target"),
        StepIsConcatenated(d, new, "step1"),
        StepIsConcatenated(d, new, "step2"),
        StepIsConcatenated(d, new, "step3"),
        CrsDeprecated(d, "concatenated_operation", new, "source"),
        CrsDeprecated(d, "concatenated_operation", new, "target"),
        AreaDeprecated(d, "concatenated_operation", new)
    >>

\* A variant without the step that forbids a concatenated step2.
concatenated_operation_insert_trigger_without_step2_rule(d, new) ==
    FirstError(Without(concatenated_operation_insert_trigger_steps(d, new),
                       "insert on concatenated_operation violates constraint: step2 should not be a concatenated_operation"))

concatenated_operation_insert_trigger(d, new) == FirstError(concatenated_operation_insert_trigger_steps(d, new))

concatenated_operation_constraints(d, new) ==
    FirstError(<<
        <<OperationColumnConstraints("concatenated_operation", new) # OK,
          OperationColumnConstraints("concatenated_operation", new)>>,
        <<new.step1_auth_name = NULL,
          "NOT NULL constraint failed: concatenated_operation.step1_auth_name">>,
        <<new.step1_code = NULL, "NOT NULL constraint failed: concatenated_operation.step1_code">>,
        <<new.step2_auth_name = NULL,
          "NOT NULL constraint failed: concatenated_operation.step2_auth_name">>,
        <<new.step2_code = NULL, "NOT NULL constraint failed: concatenated_operation.step2_code">>,
        <<Lookup(d.concatenated_operation, new.auth_name, new.code) # {},
          "UNIQUE constraint failed: concatenated_operation.auth_name, concatenated_operation.code">>,
        <<~FkHolds(d.area, new.area_of_use_auth_name, new.area_of_use_code), ForeignKeyFailed>>
    >>)

concatenated_operation_insert(d, new) ==
    Then(concatenated_operation_insert_trigger(d, new), concatenated_operation_constraints(d, new))

-----------------------------------------------------------------------------
(* grid_packages, grid_alternatives                                        *)

grid_packages_insert_trigger(d, new) ==
    FirstError(<<
        <<new.open_license = NullNum /\ new.url # NULL,
          "insert on grid_packages violates constraint: open_license must be set when url is not NULL">>,
        <<new.direct_download = NullNum /\ new.url # NULL,
          "insert on grid_packages violates constraint: direct_download must be set when url is not NULL">>
    >>)

grid_packages_constraints(d, new) ==
    FirstError(<<
        <<new.package_name = NULL, "NOT NULL constraint failed: grid_packages.package_name">>,
        <<CheckFails(IF new.direct_download = NullNum THEN U3
                     ELSE B3(new.direct_download \in {0, 1})),
          "CHECK constraint failed: grid_packages">>,
        <<CheckFails(IF new.open_license = NullNum THEN U3 ELSE B3(new.open_license \in {0, 1})),
          "CHECK constraint failed: grid_packages">>,
        <<\E p \in d.grid_packages : p.package_name = new.package_name,
          "UNIQUE constraint failed: grid_packages.package_name">>
    >>)

grid_packages_insert(d, new) ==
    Then(grid_packages_insert_trigger(d, new), grid_packages_constraints(d, new))

\* a NOT IN (SELECT ...), the values of the SELECT given as a set.
NotInSelect(a, values) ==
    IF values = {} THEN T3
    ELSE IF a = NULL THEN U3
    ELSE IF a \in values THEN F3
    ELSE IF NULL \in values THEN U3
    ELSE T3

\* A variant that also selects grid2_name.
GridNamesOfBothGrids(d) ==
    {g.grid_name : g \in d.grid_transformation}
    \cup {g.grid2_name : g \in d.grid_transformation}

\* (SELECT grid_name FROM grid_transformation)
GridNames(d) == {g.grid_name : g \in d.grid_transformation}

GridNameMessage ==
    "insert on grid_alternatives violates constraint: original_grid_name must be referenced in grid_transformation.grid_name"

\* A variant without the step that pairs the horizontal formats with hgridshift.
grid_alternatives_insert_trigger_no_hgridshift_rule(d, new) ==
    FirstError(<<
        <<IsTrue(NotInT(new.proj_grid_format, {"CTable2", "NTv1", "NTv2", "GTX"})),
          "insert on grid_alternatives violates constraint: proj_grid_format must be one of 'CTable2', 'NTv1', 'NTv2', 'GTX'">>,
        <<IsTrue(NotInT(new.proj_method, {"hgridshift", "vgridshift"})),
          "insert on grid_alternatives violates constraint: proj_method must be one of 'hgridshift', 'vgridshift'">>,
        <<IsTrue(And3(NeT(new.proj_method, "vgridshift"), InT(new.proj_grid_format, {"GTX"}))),
          "insert on grid_alternatives violates constraint: proj_method must be 'vridshift' when proj_grid_format is 'GTX'">>,
        <<IsTrue(And3(NotInT(new.original_grid_name, {"null"}),
                      NotInSelect(new.original_grid_name, GridNames(d)))),
          GridNameMessage>>
    >>)

grid_alternatives_insert_trigger(d, new) ==
    FirstError(<<
        <<IsTrue(NotInT(new.proj_grid_format, {"CTable2", "NTv1", "NTv2", "GTX"})),
          "insert on grid_alternatives violates constraint: proj_grid_format must be one of 'CTable2', 'NTv1', 'NTv2', 'GTX'">>,
        <<IsTrue(NotInT(new.proj_method, {"hgridshift", "vgridshift"})),
          "insert on grid_alternatives violates constraint: proj_method must be one of 'hgridshift', 'vgridshift'">>,
        <<IsTrue(And3(NeT(new.proj_method, "hgridshift"),
                      InT(new.proj_grid_format, {"CTable2", "NTv1", "NTv2"}))),
          "insert on grid_alternatives violates constraint: proj_method must be 'hgridshift' when proj_grid_format is 'CTable2', 'NTv1', 'NTv2'">>,
        <<IsTrue(And3(NeT(new.proj_method, "vgridshift"), InT(new.proj_grid_format, {"GTX"}))),
          "insert on grid_alternatives violates constraint: proj_method must be 'vridshift' when proj_grid_format is 'GTX'">>,
        <<IsTrue(And3(NotInT(new.original_grid_name, {"null"}),
                      NotInSelect(new.original_grid_name, GridNames(d)))),
          GridNameMessage>>,
        <<IsTrue(And3(EqT(new.original_grid_name, new.proj_grid_name),
                      NeN(new.inverse_direction, 0))),
          "insert on grid_alternatives violates constraint: NEW.inverse_direction must be 0 when original_grid_name = proj_grid_name">>,
        <<new.package_name # NULL /\ new.url # NULL,
          "insert on grid_alternatives violates constraint: package_name must be NULL when url is not NULL">>,
        <<new.direct_download = NullNum /\ new.url # NULL,
          "insert on grid_alternatives violates constraint: direct_download must be set when url is not NULL">>,
        <<new.open_license = NullNum /\ new.url # NULL,
          "insert on grid_alternatives violates constraint: open_license must be set when url is not NULL">>
    >>)

grid_alternatives_constraints(d, new) ==
    FirstError(<<
        <<new.original_grid_name = NULL,
          "NOT NULL constraint failed: grid_alternatives.original_grid_name">>,
        <<new.proj_grid_name = NULL, "NOT NULL constraint failed: grid_alternatives.proj_grid_name">>,
        <<new.proj_grid_format = NULL,
          "NOT NULL constraint failed: grid_alternatives.proj_grid_format">>,
        <<new.proj_method = NULL, "NOT NULL constraint failed: grid_alternatives.proj_method">>,
        <<new.inverse_direction = NullNum,
          "NOT NULL constraint failed: grid_alternatives.inverse_direction">>,
        <<CheckFails(B3(new.inverse_direction \in {0, 1})),
          "CHECK constraint failed: grid_alternatives">>,
        <<CheckFails(IF new.direct_download = NullNum THEN U3
                     ELSE B3(new.direct_download \in {0, 1})),
          "CHECK constraint failed: grid_alternatives">>,
        <<CheckFails(IF new.open_license = NullNum THEN U3 ELSE B3(new.open_license \in {0, 1})),
          "CHECK constraint failed: grid_alternatives">>,
        <<\E g \in d.grid_alternatives : g.original_grid_name = new.original_grid_name,
          "UNIQUE constraint failed: grid_alternatives.original_grid_name">>,
        <<new.package_name # NULL
              /\ ~\E p \in d.grid_packages : p.package_name = new.package_name,
          ForeignKeyFailed>>
    >>)

grid_alternatives_insert(d, new) ==
    Then(grid_alternatives_insert_trigger(d, new), grid_alternatives_constraints(d, new))

-----------------------------------------------------------------------------
(* axis                                                                    *)

axis_insert_trigger(d, new) ==
    FirstError(<<
        <<IsTrue(GtN(new.coordinate_system_order,
                     ScalarN(Lookup(d.coordinate_system, new.coordinate_system_auth_name,
                                    new.coordinate_system_code), "dimension"))),
          "insert on axis violates constraint: coordinate_system_order should be <= coordinate_system.dimension">>
    >>)

axis_constraints(d, new) ==
    FirstError(<<
        <<new.auth_name = NULL, "NOT NULL constraint failed: axis.auth_name">>,
        <<new.code = NULL, "NOT NULL constraint failed: axis.code">>,
        <<new.coordinate_system_auth_name = NULL,
          "NOT NULL constraint failed: axis.coordinate_system_auth_name">>,
        <<new.coordinate_system_code = NULL,
          "NOT NULL constraint failed: axis.coordinate_system_code">>,
        <<new.coordinate_system_order = NullNum,
          "NOT NULL constraint failed: axis.coordinate_system_order">>,
        <<new.uom_auth_name = NULL, "NOT NULL constraint failed: axis.uom_auth_name">>,
        <<new.uom_code = NULL, "NOT NULL constraint failed: axis.uom_code">>,
        <<CheckFails(BetweenN(new.coordinate_system_order, 1, 3)), "CHECK constraint failed: axis">>,
        <<Lookup(d.axis, new.auth_name, new.code) # {},
          "UNIQUE constraint failed: axis.auth_name, axis.code">>,
        <<~FkHolds(d.coordinate_system, new.coordinate_system_auth_name,
                   new.coordinate_system_code), ForeignKeyFailed>>,
        <<~FkHolds(d.unit_of_measure, new.uom_auth_name, new.uom_code), ForeignKeyFailed>>
    >>)

axis_insert(d, new) == Then(axis_insert_trigger(d, new), axis_constraints(d, new))

-----------------------------------------------------------------------------
(* object_view, alias_name, supersession, deprecation                      *)

\* One SELECT of object_view over a table that has no area of use.
ObjectRows(table_name, rows, deprecated(_)) ==
    {[table_name |-> table_name, auth_name |-> r.auth_name, code |-> r.code, type |-> NULL,
      area_of_use_auth_name |-> NULL, area_of_use_code |-> NULL,
      deprecated |-> deprecated(r)] : r \in rows}

\* One SELECT of object_view over a table, or a view, that has one.
ObjectRowsWithArea(rows, table_name(_), type(_)) ==
    {[table_name |-> table_name(r), auth_name |-> r.auth_name, code |-> r.code,
      type |-> type(r), area_of_use_auth_name |-> r.area_of_use_auth_name,
      area_of_use_code |-> r.area_of_use_code, deprecated |-> r.deprecated] : r \in rows}

\* object_view: every object of the database under its table's name.
object_view(d) ==
    ObjectRows("unit_of_measure", d.unit_of_measure, LAMBDA r : r.deprecated)
    \cup ObjectRows("celestial_body", d.celestial_body, LAMBDA r : 0)
    \cup ObjectRows("ellipsoid", d.ellipsoid, LAMBDA r : r.deprecated)
    \cup ObjectRows("area", d.area, LAMBDA r : r.deprecated)
    \cup ObjectRows("prime_meridian", d.prime_meridian, LAMBDA r : r.deprecated)
    \cup ObjectRowsWithArea(d.geodetic_datum, LAMBDA r : "geodetic_datum", LAMBDA r : NULL)
    \cup ObjectRowsWithArea(d.vertical_datum, LAMBDA r : "vertical_datum", LAMBDA r : NULL)
    \cup ObjectRows("axis", d.axis, LAMBDA r : 0)
    \cup ObjectRowsWithArea(crs_view(d), LAMBDA r : r.table_name, LAMBDA r : r.type)
    \cup ObjectRowsWithArea(d.conversion_table, LAMBDA r : "conversion", LAMBDA r : NULL)
    \cup ObjectRowsWithArea(coordinate_operation_view(d), LAMBDA r : r.table_name,
                            LAMBDA r : NULL)

\* authority_list: the distinct auth_name of the tables and views it selects
\* from; conversion_table is not one of them.
authority_list(d) ==
    {r.auth_name : r \in d.unit_of_measure \cup d.celestial_body \cup d.ellipsoid \cup d.area
                         \cup d.prime_meridian \cup d.geodetic_datum \cup d.vertical_datum
                         \cup d.axis \cup crs_view(d) \cup coordinate_operation_view(d)}

\* EXISTS (SELECT 1 FROM object_view o WHERE o.table_name = .. AND
\* o.auth_name = .. AND o.code = ..)
ExistsObject(d, table_name, auth_name, code) ==
    \E o \in object_view(d) :
        IsTrue(And3(EqT(o.table_name, table_name),
                    And3(EqT(o.auth_name, auth_name), EqT(o.code, code))))

\* The table names the three link tables accept.
LinkTableNames ==
    {"unit_of_measure", "celestial_body", "ellipsoid", "area", "prime_meridian",
     "geodetic_datum", "vertical_datum", "geodetic_crs", "projected_crs", "vertical_crs",
     "compound_crs", "conversion", "grid_transformation", "helmert_transformation",
     "other_transformation", "concatenated_operation"}

\* length(text) >= n
LengthGe(text, n) == IF text = NULL THEN U3 ELSE B3(Len(text) >= n)

alias_name_insert_trigger_steps(d, new) ==
    <<
        <<~ExistsObject(d, new.table_name, new.auth_name, new.code),
          "insert on alias_name violates constraint: new entry refers to unexisting code">>
    >>

\* A variant that leaves the target of an alias unchecked.
alias_name_insert_trigger_without_lookup(d, new) ==
    FirstError(Without(alias_name_insert_trigger_steps(d, new),
                       "insert on alias_name violates constraint: new entry refers to unexisting code"))

alias_name_insert_trigger(d, new) == FirstError(alias_name_insert_trigger_steps(d, new))

alias_name_constraints(d, new) ==
    FirstError(<<
        <<new.table_name = NULL, "NOT NULL constraint failed: alias_name.table_name">>,
        <<new.auth_name = NULL, "NOT NULL constraint failed: alias_name.auth_name">>,
        <<new.code = NULL, "NOT NULL constraint failed: alias_name.code">>,
        <<new.alt_name = NULL, "NOT NULL constraint failed: alias_name.alt_name">>,
        <<CheckFails(InT(new.table_name, LinkTableNames)), "CHECK constraint failed: alias_name">>,
        <<CheckFails(LengthGe(new.auth_name, 1)), "CHECK constraint failed: alias_name">>,
        <<CheckFails(LengthGe(new.code, 1)), "CHECK constraint failed: alias_name">>,
        <<CheckFails(LengthGe(new.alt_name, 2)), "CHECK constraint failed: alias_name">>
    >>)

alias_name_insert(d, new) ==
    Then(alias_name_insert_trigger(d, new), alias_name_constraints(d, new))

supersession_insert_trigger_steps(d, new) ==
    <<
        <<~ExistsObject(d, new.superseded_table_name, new.superseded_auth_name,
                        new.superseded_code),
          "insert on supersession violates constraint: superseded entry refers to unexisting code">>,
        <<~ExistsObject(d, new.replacement_table_name, new.replacement_auth_name,
                        new.replacement_code),
          "insert on supersession violates constraint: replacement entry refers to unexisting code">>
    >>

\* A variant with a step that rejects a link to the entry itself and a link
\* whose way back is stored.
supersession_insert_trigger_rejecting_cycle(d, new) ==
    FirstError(supersession_insert_trigger_steps(d, new) \o <<
        <<\/ <<new.superseded_table_name, new.superseded_auth_name, new.superseded_code>>
                 = <<new.replacement_table_name, new.replacement_auth_name, new.replacement_code>>
          \/ \E s \in d.supersession :
                 /\ <<s.superseded_table_name, s.superseded_auth_name, s.superseded_code>>
                        = <<new.replacement_table_name, new.replacement_auth_name,
                            new.replacement_code>>
                 /\ <<s.replacement_table_name, s.replacement_auth_name, s.replacement_code>>
                        = <<new.superseded_table_name, new.superseded_auth_name,
                            new.superseded_code>>,
          "insert on supersession violates constraint: cycle">> >>)

supersession_insert_trigger(d, new) == FirstError(supersession_insert_trigger_steps(d, new))

supersession_constraints(d, new) ==
    FirstError(<<
        <<new.superseded_table_name = NULL,
          "NOT NULL constraint failed: supersession.superseded_table_name">>,
        <<new.superseded_auth_name = NULL,
          "NOT NULL constraint failed: supersession.superseded_auth_name">>,
        <<new.superseded_code = NULL, "NOT NULL constraint failed: supersession.superseded_code">>,
        <<new.replacement_table_name = NULL,
          "NOT NULL constraint failed: supersession.replacement_table_name">>,
        <<new.replacement_auth_name = NULL,
          "NOT NULL constraint failed: supersession.replacement_auth_name">>,
        <<new.replacement_code = NULL,
          "NOT NULL constraint failed: supersession.replacement_code">>,
        <<CheckFails(InT(new.superseded_table_name, LinkTableNames)),
          "CHECK constraint failed: supersession">>,
        <<CheckFails(InT(new.replacement_table_name, LinkTableNames)),
          "CHECK constraint failed: supersession">>
    >>)

supersession_insert(d, new) ==
    Then(supersession_insert_trigger(d, new), supersession_constraints(d, new))

deprecation_insert_trigger_steps(d, new) ==
    <<
        <<~ExistsObject(d, new.table_name, new.deprecated_auth_name, new.deprecated_code),
          "insert on deprecation violates constraint: deprecated entry refers to unexisting code">>,
        <<~ExistsObject(d, new.table_name, new.replacement_auth_name, new.replacement_code),
          "insert on deprecation violates constraint: replacement entry refers to unexisting code">>
    >>

\* A variant that does not look the replacement entry up.
deprecation_insert_trigger_without_replacement(d, new) ==
    FirstError(Without(deprecation_insert_trigger_steps(d, new),
                       "insert on deprecation violates constraint: replacement entry refers to unexisting code"))

deprecation_insert_trigger(d, new) == FirstError(deprecation_insert_trigger_steps(d, new))

deprecation_constraints(d, new) ==
    FirstError(<<
        <<new.table_name = NULL, "NOT NULL constraint failed: deprecation.table_name">>,
        <<new.deprecated_auth_name = NULL,
          "NOT NULL constraint failed: deprecation.deprecated_auth_name">>,
        <<new.deprecated_code = NULL, "NOT NULL constraint failed: deprecation.deprecated_code">>,
        <<new.replacement_auth_name = NULL,
          "NOT NULL constraint failed: deprecation.replacement_auth_name">>,
        <<new.replacement_code = NULL,
          "NOT NULL constraint failed: deprecation.replacement_code">>,
        <<CheckFails(InT(new.table_name, LinkTableNames)), "CHECK constraint failed: deprecation">>
    >>)

deprecation_insert(d, new) ==
    Then(deprecation_insert_trigger(d, new), deprecation_constraints(d, new))

-----------------------------------------------------------------------------
(* geodetic_datum_preferred_hub, authority_to_authority_preference         *)

geodetic_datum_preferred_hub_constraints(d, new) ==
    FirstError(<<
        <<new.src_auth_name = NULL,
          "NOT NULL constraint failed: geodetic_datum_preferred_hub.src_auth_name">>,
        <<new.src_code = NULL, "NOT NULL constraint failed: geodetic_datum_preferred_hub.src_code">>,
        <<new.hub_auth_name = NULL,
          "NOT NULL constraint failed: geodetic_datum_preferred_hub.hub_auth_name">>,
        <<new.hub_code = NULL, "NOT NULL constraint failed: geodetic_datum_preferred_hub.hub_code">>,
        <<CheckFails(LengthGe(new.src_auth_name, 1)),
          "CHECK constraint failed: geodetic_datum_preferred_hub">>,
        <<CheckFails(LengthGe(new.src_code, 1)),
          "CHECK constraint failed: geodetic_datum_preferred_hub">>,
        <<CheckFails(LengthGe(new.hub_auth_name, 1)),
          "CHECK constraint failed: geodetic_datum_preferred_hub">>,
        <<CheckFails(LengthGe(new.hub_code, 1)),
          "CHECK constraint failed: geodetic_datum_preferred_hub">>,
        <<new \in d.geodetic_datum_preferred_hub,
          "UNIQUE constraint failed: geodetic_datum_preferred_hub.src_auth_name, geodetic_datum_preferred_hub.src_code, geodetic_datum_preferred_hub.hub_auth_name, geodetic_datum_preferred_hub.hub_code">>,
        <<~FkHolds(d.geodetic_datum, new.src_auth_name, new.src_code), ForeignKeyFailed>>,
        <<~FkHolds(d.geodetic_datum, new.hub_auth_name, new.hub_code), ForeignKeyFailed>>
    >>)

\* allowed_authorities, a text such as 'PROJ,EPSG,any', is kept as the
\* tuple of the names it lists.
authority_to_authority_preference_constraints(d, new) ==
    FirstError(<<
        <<new.source_auth_name = NULL,
          "NOT NULL constraint failed: authority_to_authority_preference.source_auth_name">>,
        <<new.target_auth_name = NULL,
          "NOT NULL constraint failed: authority_to_authority_preference.target_auth_name">>,
        <<new.allowed_authorities = NULL,
          "NOT NULL constraint failed: authority_to_authority_preference.allowed_authorities">>,
        <<\E p \in d.authority_to_authority_preference :
              p.source_auth_name = new.source_auth_name
                  /\ p.target_auth_name = new.target_auth_name,
          "UNIQUE constraint failed: authority_to_authority_preference.source_auth_name, authority_to_authority_preference.target_auth_name">>
    >>)

-----------------------------------------------------------------------------
(* The database, and the INSERT statements.                                *)

\* The tables as the file creates them: empty, but for the Earth.
EmptyDb ==
    [unit_of_measure |-> {}, celestial_body |-> {Earth}, ellipsoid |-> {}, area |-> {},
     prime_meridian |-> {}, geodetic_datum |-> {}, vertical_datum |-> {},
     coordinate_system |-> {}, geodetic_crs |-> {}, vertical_crs |-> {},
     conversion_method |-> {}, conversion_param |-> {}, conversion_table |-> {},
     projected_crs |-> {}, compound_crs |-> {}, coordinate_operation_method |-> {},
     helmert_transformation_table |-> {}, grid_transformation |-> {},
     grid_packages |-> {}, grid_alternatives |-> {}, other_transformation |-> {},
     concatenated_operation |-> {}, axis |-> {}, alias_name |-> {}, supersession |-> {},
     deprecation |-> {}, geodetic_datum_preferred_hub |-> {},
     authority_to_authority_preference |-> {}]

\* The relations an INSERT statement can name that are views.
Views == {"conversion", "helmert_transformation"}

\* The outcome of INSERT INTO table VALUES (new) on database d: OK, or the
\* message of the first trigger step or constraint that fails.
InsertError(d, table, new) ==
    CASE table = "unit_of_measure" -> unit_of_measure_constraints(d, new)
      [] table = "celestial_body" -> celestial_body_constraints(d, new)
      [] table = "ellipsoid" -> ellipsoid_insert(d, new)
      [] table = "area" -> area_insert(d, new)
      [] table = "prime_meridian" -> prime_meridian_insert(d, new)
      [] table = "geodetic_datum" -> geodetic_datum_insert(d, new)
      [] table = "vertical_datum" -> vertical_datum_insert(d, new)
      [] table = "coordinate_system" -> coordinate_system_insert(d, new)
      [] table = "geodetic_crs" -> geodetic_crs_insert(d, new)
      [] table = "vertical_crs" -> vertical_crs_insert(d, new)
      [] table = "conversion_method" -> conversion_method_insert(d, new)
      [] table = "conversion_param" -> conversion_param_constraints(d, new)
      [] table = "conversion_table" -> conversion_table_insert(d, new)
      [] table = "conversion" -> conversion_insert(d, new).err
      [] table = "projected_crs" -> projected_crs_insert(d, new)
      [] table = "compound_crs" -> compound_crs_insert(d, new)
      [] table = "coordinate_operation_method" -> coordinate_operation_method_constraints(d, new)
      [] table = "helmert_transformation_table" -> helmert_transformation_table_insert(d, new)
      [] table = "helmert_transformation" -> helmert_transformation_insert(d, new).err
      [] table = "grid_transformation" -> grid_transformation_insert(d, new)
      [] table = "grid_packages" -> grid_packages_insert(d, new)
      [] table = "grid_alternatives" -> grid_alternatives_insert(d, new)
      [] table = "other_transformation" -> other_transformation_insert(d, new)
      [] table = "concatenated_operation" -> concatenated_operation_insert(d, new)
      [] table = "axis" -> axis_insert(d, new)
      [] table = "alias_name" -> alias_name_insert(d, new)
      [] table = "supersession" -> supersession_insert(d, new)
      [] table = "deprecation" -> deprecation_insert(d, new)
      [] table = "geodetic_datum_preferred_hub" ->
            geodetic_datum_preferred_hub_constraints(d, new)
      [] table = "authority_to_authority_preference" ->
            authority_to_authority_preference_constraints(d, new)

\* The rows the statement adds when nothing fails: the row itself in a
\* table, what the INSTEAD OF triggers added in a view.
InsertEffect(d, table, new) ==
    CASE table = "conversion" -> conversion_insert(d, new).d
      [] table = "helmert_transformation" -> helmert_transformation_insert(d, new).d
      [] table \notin Views -> [d EXCEPT ![table] = @ \cup {new}]

\* The database after the statement: an aborted statement changes nothing.
\* A variant that keeps what an aborted statement had written.
ExecWithoutRollback(d, table, new) == InsertEffect(d, table, new)

Exec(d, table, new) ==
    IF InsertError(d, table, new) = OK THEN InsertEffect(d, table, new) ELSE d

\* The database after a script of statements <<table, row>>, run in order.
RECURSIVE Load(_, _)
Load(d, script) ==
    IF script = <<>> THEN d
    ELSE Load(Exec(d, Head(script)[1], Head(script)[2]), Tail(script))

\* A run adds at most MaxRows rows per table.
MaxRows == 2

\* What the statement leaves in last.
Outcome(d, table, new) == [table |-> table, row |-> new, err |-> InsertError(d, table, new)]

NoStatement == [table |-> "none", row |-> <<>>, err |-> OK]

-----------------------------------------------------------------------------
(* The actions: one INSERT statement, its row drawn from the given inputs. *)

InsertUnitOfMeasure(inputs) ==
    \E new \in inputs :
        /\ Cardinality(db.unit_of_measure) < MaxRows
        /\ db' = Exec(db, "unit_of_measure", new)
        /\ last' = Outcome(db, "unit_of_measure", new)

InsertEllipsoid(inputs) ==
    \E new \in inputs :
        /\ Cardinality(db.ellipsoid) < MaxRows
        /\ db' = Exec(db, "ellipsoid", new)
        /\ last' = Outcome(db, "ellipsoid", new)

InsertArea(inputs) ==
    \E new \in inputs :
        /\ Cardinality(db.area) < MaxRows
        /\ db' = Exec(db, "area", new)
        /\ last' = Outcome(db, "area", new)

InsertPrimeMeridian(inputs) ==
    \E new \in inputs :
        /\ Cardinality(db.prime_meridian) < MaxRows
        /\ db' = Exec(db, "prime_meridian", new)
        /\ last' = Outcome(db, "prime_meridian", new)

InsertGeodeticDatum(inputs) ==
    \E new \in inputs :
        /\ Cardinality(db.geodetic_datum) < MaxRows
        /\ db' = Exec(db, "geodetic_datum", new)
        /\ last' = Outcome(db, "geodetic_datum", new)

InsertVerticalDatum(inputs) ==
    \E new \in inputs :
        /\ Cardinality(db.vertical_datum) < MaxRows
        /\ db' = Exec(db, "vertical_datum", new)
        /\ last' = Outcome(db, "vertical_datum", new)

InsertCoordinateSystem(inputs) ==
    \E new \in inputs :
        /\ Cardinality(db.coordinate_system) < MaxRows
        /\ db' = Exec(db, "coordinate_system", new)
        /\ last' = Outcome(db, "coordinate_system", new)

InsertGeodeticCrs(inputs) ==
    \E new \in inputs :
        /\ Cardinality(db.geodetic_crs) < MaxRows
        /\ db' = Exec(db, "geodetic_crs", new)
        /\ last' = Outcome(db, "geodetic_crs", new)

InsertVerticalCrs(inputs) ==
    \E new \in inputs :
        /\ Cardinality(db.vertical_crs) < MaxRows
        /\ db' = Exec(db, "vertical_crs", new)
        /\ last' = Outcome(db, "vertical_crs", new)

InsertConversion(inputs) ==
    \E new \in inputs :
        /\ Cardinality(db.conversion_table) < MaxRows
        /\ db' = Exec(db, "conversion", new)
        /\ last' = Outcome(db, "conversion", new)

InsertAxis(inputs) ==
    \E new \in inputs :
        /\ Cardinality(db.axis) < MaxRows
        /\ db' = Exec(db, "axis", new)
        /\ last' = Outcome(db, "axis", new)

InsertPreferredHub(inputs) ==
    \E new \in inputs :
        /\ Cardinality(db.geodetic_datum_preferred_hub) < MaxRows
        /\ db' = Exec(db, "geodetic_datum_preferred_hub", new)
        /\ last' = Outcome(db, "geodetic_datum_preferred_hub", new)

InsertAuthorityPreference(inputs) ==
    \E new \in inputs :
        /\ Cardinality(db.authority_to_authority_preference) < MaxRows
        /\ db' = Exec(db, "authority_to_authority_preference", new)
        /\ last' = Outcome(db, "authority_to_authority_preference", new)

InsertAliasName(inputs) ==
    \E new \in inputs :
        /\ Cardinality(db.alias_name) < MaxRows
        /\ db' = Exec(db, "alias_name", new)
        /\ last' = Outcome(db, "alias_name", new)

InsertSupersession(inputs) ==
    \E new \in inputs :
        /\ Cardinality(db.supersession) < MaxRows
        /\ db' = Exec(db, "supersession", new)
        /\ last' = Outcome(db, "supersession", new)

InsertDeprecation(inputs) ==
    \E new \in inputs :
        /\ Cardinality(db.deprecation) < MaxRows
        /\ db' = Exec(db, "deprecation", new)
        /\ last' = Outcome(db, "deprecation", new)

InsertConversionMethod(inputs) ==
    \E new \in inputs :
        /\ Cardinality(db.conversion_method) < MaxRows
        /\ db' = Exec(db, "conversion_method", new)
        /\ last' = Outcome(db, "conversion_method", new)

InsertConversionTable(inputs) ==
    \E new \in inputs :
        /\ Cardinality(db.conversion_table) < MaxRows
        /\ db' = Exec(db, "conversion_table", new)
        /\ last' = Outcome(db, "conversion_table", new)

InsertProjectedCrs(inputs) ==
    \E new \in inputs :
        /\ Cardinality(db.projected_crs) < MaxRows
        /\ db' = Exec(db, "projected_crs", new)
        /\ last' = Outcome(db, "projected_crs", new)

InsertCompoundCrs(inputs) ==
    \E new \in inputs :
        /\ Cardinality(db.compound_crs) < MaxRows
        /\ db' = Exec(db, "compound_crs", new)
        /\ last' = Outcome(db, "compound_crs", new)

InsertHelmertTransformation(inputs) ==
    \E new \in inputs :
        /\ Cardinality(db.helmert_transformation_table) < MaxRows
        /\ db' = Exec(db, "helmert_transformation", new)
        /\ last' = Outcome(db, "helmert_transformation", new)

InsertGridTransformation(inputs) ==
    \E new \in inputs :
        /\ Cardinality(db.grid_transformation) < MaxRows
        /\ db' = Exec(db, "grid_transformation", new)
        /\ last' = Outcome(db, "grid_transformation", new)

InsertOtherTransformation(inputs) ==
    \E new \in inputs :
        /\ Cardinality(db.other_transformation) < MaxRows
        /\ db' = Exec(db, "other_transformation", new)
        /\ last' = Outcome(db, "other_transformation", new)

InsertConcatenatedOperation(inputs) ==
    \E new \in inputs :
        /\ Cardinality(db.concatenated_operation) < MaxRows
        /\ db' = Exec(db, "concatenated_operation", new)
        /\ last' = Outcome(db, "concatenated_operation", new)

InsertGridPackages(inputs) ==
    \E new \in inputs :
        /\ Cardinality(db.grid_packages) < MaxRows
        /\ db' = Exec(db, "grid_packages", new)
        /\ last' = Outcome(db, "grid_packages", new)

InsertGridAlternatives(inputs) ==
    \E new \in inputs :
        /\ Cardinality(db.grid_alternatives) < MaxRows
        /\ db' = Exec(db, "grid_alternatives", new)
        /\ last' = Outcome(db, "grid_alternatives", new)

-----------------------------------------------------------------------------
(* Rows of the reference tables.                                           *)

UnitRow(code, type) == [auth_name |-> "EPSG", code |-> code, type |-> type, deprecated |-> 0]

Metre == UnitRow("9001", "length")

Degree == UnitRow("9102", "angle")

EllipsoidRow(code, body, uom, inv, semi_minor, dep) ==
    [auth_name |-> "EPSG", code |-> code,
     celestial_body_auth_name |-> "PROJ", celestial_body_code |-> body,
     semi_major_axis |-> 6378137, uom_auth_name |-> "EPSG", uom_code |-> uom,
     inv_flattening |-> inv, semi_minor_axis |-> semi_minor, deprecated |-> dep]

-----------------------------------------------------------------------------
(* SpecEllipsoid: units and ellipsoids.                                    *)

EllipsoidInputs ==
    {EllipsoidRow(code, body, uom, inv, semi_minor, dep) :
        code \in {"7030", "7019"}, body \in {"EARTH", "MOON"}, uom \in {"9001", "9102"},
        inv \in {NullNum, 0, 298}, semi_minor \in {NullNum, 6356752, 7000000},
        dep \in {0, 1}}


InitEllipsoid == db = EmptyDb /\ last = NoStatement

NextEllipsoid == InsertUnitOfMeasure({Metre, Degree}) \/ InsertEllipsoid(EllipsoidInputs)

SpecEllipsoid == InitEllipsoid /\ [][NextEllipsoid]_vars

BothOrNeither(row) ==
    (row.inv_flattening = NullNum) = (row.semi_minor_axis = NullNum)

EllipsoidRuleMessage ==
    "insert on ellipsoid violates constraint: inv_flattening (exclusive) or semi_minor_axis should be defined"

\* C1: after any sequence of inserts every stored ellipsoid has exactly one of
\* inv_flattening and semi_minor_axis set; an insert with both NULL or both
\* set is rejected with the message of that rule and leaves the ellipsoid
\* table as it was.
C1_ExactlyOneShapeParameter ==
    /\ [](\A e \in db.ellipsoid : ~BothOrNeither(e))
    /\ [][(last'.table = "ellipsoid" /\ BothOrNeither(last'.row))
            => (last'.err = EllipsoidRuleMessage /\ db'.ellipsoid = db.ellipsoid)]_vars

\* An ellipsoid is stored, and an insert with neither parameter has just been
\* rejected by the rule.
C1_Witness ==
    /\ db.ellipsoid # {}
    /\ last.table = "ellipsoid"
    /\ last.row.inv_flattening = NullNum /\ last.row.semi_minor_axis = NullNum
    /\ last.err = EllipsoidRuleMessage

-----------------------------------------------------------------------------
(* SpecArea: areas of use.                                                 *)

AreaRow(code, lat, lon, dep) ==
    [auth_name |-> "EPSG", code |-> code, south_lat |-> lat[1], north_lat |-> lat[2],
     west_lon |-> lon[1], east_lon |-> lon[2], deprecated |-> dep]

\* <<south_lat, north_lat>>
LatitudeInputs ==
    {<<NullNum, NullNum>>, <<10, NullNum>>, <<5, 10>>, <<10, 10>>, <<10, 5>>, <<95, 95>>}

\* <<west_lon, east_lon>>: 170..10 wraps over 200 degrees, 169..10 over 201.
LongitudeInputs ==
    {<<NullNum, NullNum>>, <<NullNum, 10>>, <<0 - 10, 10>>, <<10, 0 - 10>>,
     <<170, 10>>, <<169, 10>>, <<170, 0 - 170>>}

AreaInputs ==
    {AreaRow(code, lat, lon, 0) :
        code \in {"1262", "3391"}, lat \in LatitudeInputs, lon \in LongitudeInputs}

InitArea == db = EmptyDb /\ last = NoStatement

NextArea == InsertArea(AreaInputs)

SpecArea == InitArea /\ [][NextArea]_vars

\* south <= north, and west <= east or east + 360 - west <= 200, as SQL
\* decides them: a comparison with NULL is not satisfied.
LatitudesOrdered(row) == IsTrue(LeN(row.south_lat, row.north_lat))

LongitudesBounded(row) ==
    IsTrue(Or3(LeN(row.west_lon, row.east_lon),
               LeN(SubN(AddN(row.east_lon, 360), row.west_lon), 200)))

\* C2, as stated: every stored area satisfies south <= north and (west <= east
\* or east + 360 - west <= 200), and an insert violating either is rejected.
C2_AsStated ==
    /\ \A a \in db.area : LatitudesOrdered(a) /\ LongitudesBounded(a)
    /\ (last.table = "area" /\ ~(LatitudesOrdered(last.row) /\ LongitudesBounded(last.row)))
           => last.err # OK

\* C2, amended: every stored area whose south and north latitude are both set
\* has south <= north, and whose west and east longitude are both set has
\* west <= east or east + 360 - west <= 200; an insert with both latitudes set
\* and south > north, or both longitudes set and neither condition, is rejected.
C2_BoundsOrderedWhenSet ==
    /\ \A a \in db.area :
           /\ (a.south_lat # NullNum /\ a.north_lat # NullNum) => a.south_lat <= a.north_lat
           /\ (a.west_lon # NullNum /\ a.east_lon # NullNum) =>
                  (a.west_lon <= a.east_lon \/ a.east_lon + 360 - a.west_lon <= 200)
    /\ (/\ last.table = "area"
        /\ \/ (/\ last.row.south_lat # NullNum /\ last.row.north_lat # NullNum
               /\ last.row.south_lat > last.row.north_lat)
           \/ (/\ last.row.west_lon # NullNum /\ last.row.east_lon # NullNum
               /\ last.row.west_lon > last.row.east_lon
               /\ last.row.east_lon + 360 - last.row.west_lon > 200))
           => last.err # OK

\* An area that wraps the antimeridian is stored, and the insert of
\* Area(south = 10, north = 5) has just been rejected.
C2_Witness ==
    /\ \E a \in db.area : a.west_lon # NullNum /\ a.east_lon # NullNum /\ a.west_lon > a.east_lon
    /\ last.table = "area" /\ last.row.south_lat = 10 /\ last.row.north_lat = 5
    /\ last.err = "insert on area violates constraint: south_lat <= north_lat"

-----------------------------------------------------------------------------
(* SpecDatum: ellipsoids, prime meridians, areas and the datums on them.   *)

PrimeMeridianRow(code, uom, dep) ==
    [auth_name |-> "EPSG", code |-> code, longitude |-> 0,
     uom_auth_name |-> "EPSG", uom_code |-> uom, deprecated |-> dep]

GeodeticDatumRow(code, ellipsoid, meridian, area, dep) ==
    [auth_name |-> "EPSG", code |-> code,
     ellipsoid_auth_name |-> "EPSG", ellipsoid_code |-> ellipsoid,
     prime_meridian_auth_name |-> "EPSG", prime_meridian_code |-> meridian,
     area_of_use_auth_name |-> "EPSG", area_of_use_code |-> area, deprecated |-> dep]

VerticalDatumRow(code, area, dep) ==
    [auth_name |-> "EPSG", code |-> code,
     area_of_use_auth_name |-> "EPSG", area_of_use_code |-> area, deprecated |-> dep]

NoBounds == <<NullNum, NullNum>>

\* One current and one deprecated row of each referenced kind.
DatumEllipsoidInputs ==
    {EllipsoidRow("7030", "EARTH", "9001", 298, NullNum, 0),
     EllipsoidRow("7019", "EARTH", "9001", 298, NullNum, 1)}

DatumMeridianInputs == {PrimeMeridianRow("8901", "9102", 0), PrimeMeridianRow("8902", "9102", 1)}

DatumAreaInputs == {AreaRow("1262", NoBounds, NoBounds, 0), AreaRow("3391", NoBounds, NoBounds, 1)}

GeodeticDatumInputs ==
    {GeodeticDatumRow("6326", e, m, a, dep) :
        e \in {"7030", "7019"}, m \in {"8901", "8902"}, a \in {"1262", "3391"}, dep \in {0, 1}}

VerticalDatumInputs ==
    {VerticalDatumRow("5100", a, dep) : a \in {"1262", "3391"}, dep \in {0, 1}}

UnitsLoaded == Load(EmptyDb, <<<<"unit_of_measure", Metre>>, <<"unit_of_measure", Degree>>>>)

InitDatum == db = UnitsLoaded /\ last = NoStatement

NextDatum ==
    \/ InsertEllipsoid(DatumEllipsoidInputs)
    \/ InsertPrimeMeridian(DatumMeridianInputs)
    \/ InsertArea(DatumAreaInputs)
    \/ InsertGeodeticDatum(GeodeticDatumInputs)
    \/ InsertVerticalDatum(VerticalDatumInputs)

SpecDatum == InitDatum /\ [][NextDatum]_vars

\* The referenced row is stored and not deprecated / stored and deprecated.
Current(table, auth_name, code) ==
    \E r \in table : r.auth_name = auth_name /\ r.code = code /\ r.deprecated = 0

Deprecated(table, auth_name, code) ==
    \E r \in table : r.auth_name = auth_name /\ r.code = code /\ r.deprecated # 0

\* C3: every non-deprecated geodetic datum references a non-deprecated
\* ellipsoid, prime meridian and area, every non-deprecated vertical datum a
\* non-deprecated area; the insert of a non-deprecated datum that references
\* a deprecated one of these is rejected.
C3_CurrentDatumHasCurrentReferences ==
    /\ \A g \in db.geodetic_datum : g.deprecated = 0 =>
           /\ Current(db.ellipsoid, g.ellipsoid_auth_name, g.ellipsoid_code)
           /\ Current(db.prime_meridian, g.prime_meridian_auth_name, g.prime_meridian_code)
           /\ Current(db.area, g.area_of_use_auth_name, g.area_of_use_code)
    /\ \A v \in db.vertical_datum : v.deprecated = 0 =>
           Current(db.area, v.area_of_use_auth_name, v.area_of_use_code)
    /\ (/\ last.table = "geodetic_datum" /\ last.row.deprecated = 0
        /\ \/ Deprecated(db.ellipsoid, last.row.ellipsoid_auth_name, last.row.ellipsoid_code)
           \/ Deprecated(db.prime_meridian, last.row.prime_meridian_auth_name,
                         last.row.prime_meridian_code)
           \/ Deprecated(db.area, last.row.area_of_use_auth_name, last.row.area_of_use_code))
           => last.err # OK
    /\ (/\ last.table = "vertical_datum" /\ last.row.deprecated = 0
        /\ Deprecated(db.area, last.row.area_of_use_auth_name, last.row.area_of_use_code))
           => last.err # OK

\* A current geodetic datum and a current vertical datum are stored, and the
\* insert of a current geodetic datum on a deprecated ellipsoid (its prime
\* meridian and area current) has just been rejected.
C3_Witness ==
    /\ \E g \in db.geodetic_datum : g.deprecated = 0
    /\ \E v \in db.vertical_datum : v.deprecated = 0
    /\ last.table = "geodetic_datum" /\ last.row.deprecated = 0
    /\ Deprecated(db.ellipsoid, last.row.ellipsoid_auth_name, last.row.ellipsoid_code)
    /\ Current(db.prime_meridian, last.row.prime_meridian_auth_name, last.row.prime_meridian_code)
    /\ Current(db.area, last.row.area_of_use_auth_name, last.row.area_of_use_code)
    /\ last.err = "insert on geodetic_datum violates constraint: ellipsoid must not be deprecated when geodetic_datum is not deprecated"

-----------------------------------------------------------------------------
(* Rows of the CRS tables and of the operation tables.  A reference is a   *)
(* pair <<auth_name, code>>.                                               *)

NoRef == <<NULL, NULL>>

Epsg(code) == <<"EPSG", code>>

CoordinateSystemRow(code, type, dimension) ==
    [auth_name |-> "EPSG", code |-> code, type |-> type, dimension |-> dimension]

GeodeticCrsRow(key, type, cs, datum, area, text, dep) ==
    [auth_name |-> key[1], code |-> key[2], type |-> type,
     coordinate_system_auth_name |-> cs[1], coordinate_system_code |-> cs[2],
     datum_auth_name |-> datum[1], datum_code |-> datum[2],
     area_of_use_auth_name |-> area[1], area_of_use_code |-> area[2],
     text_definition |-> text, deprecated |-> dep]

GridTransformationRow(key, source, target, grid_name, grid2_name, dep) ==
    [auth_name |-> key[1], code |-> key[2],
     method_auth_name |-> "EPSG", method_code |-> "9615", method_name |-> "NTv2",
     source_crs_auth_name |-> source[1], source_crs_code |-> source[2],
     target_crs_auth_name |-> target[1], target_crs_code |-> target[2],
     area_of_use_auth_name |-> "EPSG", area_of_use_code |-> "1262", accuracy |-> 1,
     grid_name |-> grid_name, grid2_name |-> grid2_name,
     interpolation_crs_auth_name |-> NULL, interpolation_crs_code |-> NULL,
     deprecated |-> dep]

GridAlternativesRow(original_grid_name, proj_grid_format, proj_method) ==
    [original_grid_name |-> original_grid_name, proj_grid_name |-> "proj_grid",
     proj_grid_format |-> proj_grid_format, proj_method |-> proj_method,
     inverse_direction |-> 0, package_name |-> NULL, url |-> NULL,
     direct_download |-> NullNum, open_license |-> NullNum]

\* The units, an ellipsoid, a prime meridian, an area, a geodetic and a
\* vertical datum, and one coordinate system of each shape the CRS kinds ask.
ReferenceLoaded ==
    Load(UnitsLoaded, <<
        <<"ellipsoid", EllipsoidRow("7030", "EARTH", "9001", 298, NullNum, 0)>>,
        <<"prime_meridian", PrimeMeridianRow("8901", "9102", 0)>>,
        <<"area", AreaRow("1262", NoBounds, NoBounds, 0)>>,
        <<"geodetic_datum", GeodeticDatumRow("6326", "7030", "8901", "1262", 0)>>,
        <<"vertical_datum", VerticalDatumRow("5100", "1262", 0)>>,
        <<"coordinate_system", CoordinateSystemRow("6422", "ellipsoidal", 2)>>,
        <<"coordinate_system", CoordinateSystemRow("4400", "Cartesian", 2)>>,
        <<"coordinate_system", CoordinateSystemRow("6499", "vertical", 1)>> >>)

Wgs84 ==
    GeodeticCrsRow(Epsg("4326"), "geographic 2D", Epsg("6422"), Epsg("6326"), Epsg("1262"),
                   NULL, 0)

Nad27 ==
    GeodeticCrsRow(Epsg("4267"), "geographic 2D", Epsg("6422"), Epsg("6326"), Epsg("1262"),
                   NULL, 0)

\* ReferenceLoaded and two geodetic CRSs.
CrsLoaded == Load(ReferenceLoaded, << <<"geodetic_crs", Wgs84>>, <<"geodetic_crs", Nad27>> >>)

-----------------------------------------------------------------------------
(* SpecGrid: grid transformations and grid alternatives.                   *)

GridTransformationInputs ==
    {GridTransformationRow(Epsg(code), Epsg("4267"), Epsg("4326"), grid_name, grid2_name, 0) :
        code \in {"1312", "1313"}, grid_name \in {"ntv1_can.dat", "conus"},
        grid2_name \in {NULL, "second.gsb"}}

\* Every name with a valid and an invalid format, under either method.
GridAlternativesInputs ==
    {GridAlternativesRow(original_grid_name, proj_grid_format, proj_method) :
        original_grid_name \in {NULL, "null", "ntv1_can.dat", "second.gsb", "unknown.gsb"},
        proj_grid_format \in {"NTv2", "GTX", "GeoTIFF"},
        proj_method \in {"hgridshift", "vgridshift"}}

InitGrid == db = CrsLoaded /\ last = NoStatement

NextGrid ==
    \/ InsertGridTransformation(GridTransformationInputs)
    \/ InsertGridAlternatives(GridAlternativesInputs)

SpecGrid == InitGrid /\ [][NextGrid]_vars

-----------------------------------------------------------------------------
(* SpecGridFormat: grid alternatives of every format and method, on a      *)
(* database with one grid transformation.                                 *)

GridLoaded ==
    Load(CrsLoaded, << <<"grid_transformation",
        GridTransformationRow(Epsg("1312"), Epsg("4267"), Epsg("4326"), "ntv1_can.dat", NULL, 0)>> >>)

GridFormatInputs ==
    {GridAlternativesRow(original_grid_name, proj_grid_format, proj_method) :
        original_grid_name \in {"null", "ntv1_can.dat"},
        proj_grid_format \in {NULL, "CTable2", "NTv1", "NTv2", "GTX", "GeoTIFF"},
        proj_method \in {NULL, "hgridshift", "vgridshift", "geoidgrids"}}

InitGridFormat == db = GridLoaded /\ last = NoStatement

NextGridFormat == InsertGridAlternatives(GridFormatInputs)

SpecGridFormat == InitGridFormat /\ [][NextGridFormat]_vars

HorizontalFormats == {"CTable2", "NTv1", "NTv2"}

CompatiblePair(row) ==
    \/ row.proj_grid_format \in HorizontalFormats /\ row.proj_method = "hgridshift"
    \/ row.proj_grid_format = "GTX" /\ row.proj_method = "vgridshift"

\* C7: every stored grid alternative has a compatible format/method pair:
\* CTable2, NTv1 or NTv2 with hgridshift, GTX with vgridshift; no other
\* format or method value is stored, and the insert of any other pair is
\* rejected.
C7_CompatibleFormatAndMethod ==
    /\ \A g \in db.grid_alternatives : CompatiblePair(g)
    /\ (last.table = "grid_alternatives" /\ ~CompatiblePair(last.row)) => last.err # OK

\* A horizontal grid alternative with hgridshift is stored, and the insert of
\* a horizontal format with vgridshift has just been rejected by the pairing
\* step.
C7_Witness ==
    /\ \E g \in db.grid_alternatives :
           g.proj_grid_format \in HorizontalFormats /\ g.proj_method = "hgridshift"
    /\ last.table = "grid_alternatives"
    /\ last.row.proj_grid_format \in HorizontalFormats /\ last.row.proj_method = "vgridshift"
    /\ last.err = "insert on grid_alternatives violates constraint: proj_method must be 'hgridshift' when proj_grid_format is 'CTable2', 'NTv1', 'NTv2'"

\* The insert reaches the grid-reference rule: it names a grid, and the four
\* steps on format and method before the rule raise nothing.
ReachesGridNameRule(row) ==
    /\ row.original_grid_name # NULL
    /\ row.proj_grid_format = NULL \/ row.proj_grid_format \in HorizontalFormats \cup {"GTX"}
    /\ row.proj_method = NULL \/ row.proj_method \in {"hgridshift", "vgridshift"}
    /\ row.proj_grid_format = NULL \/ row.proj_method = NULL \/ CompatiblePair(row)

FirstGrids == {g.grid_name : g \in db.grid_transformation}

SecondGrids == {g.grid2_name : g \in db.grid_transformation} \ {NULL}

\* C8 as stated: an insert of a grid alternative that reaches the
\* grid-reference rule is rejected by it exactly when its original_grid_name
\* is not 'null' and is neither the first nor the second grid of any stored
\* grid transformation.
C8_AsStated ==
    [][(last'.table = "grid_alternatives" /\ ReachesGridNameRule(last'.row))
          => (last'.err = GridNameMessage
                <=> /\ last'.row.original_grid_name # "null"
                    /\ last'.row.original_grid_name \notin FirstGrids \cup SecondGrids)]_vars

\* C8: an insert of a grid alternative that reaches the grid-reference rule
\* is rejected by it exactly when its original_grid_name is not 'null' and
\* is not the first grid (grid_name) of any stored grid transformation; a
\* name that is only a second grid (grid2_name) is rejected.
C8_RejectedUnlessFirstGrid ==
    [][(last'.table = "grid_alternatives" /\ ReachesGridNameRule(last'.row))
          => (last'.err = GridNameMessage
                <=> /\ last'.row.original_grid_name # "null"
                    /\ last'.row.original_grid_name \notin FirstGrids)]_vars

\* An alternative of a first grid is stored, and the insert of an alternative
\* of a name that is the second grid of a stored grid transformation, and the
\* first grid of none, has just been rejected by the grid-reference rule.
C8_Witness ==
    /\ \E g \in db.grid_alternatives : g.original_grid_name \in FirstGrids
    /\ last.table = "grid_alternatives" /\ ReachesGridNameRule(last.row)
    /\ last.row.original_grid_name \in SecondGrids \ FirstGrids
    /\ last.err = GridNameMessage

-----------------------------------------------------------------------------
(* SpecGeodeticCrs: geodetic CRSs with every combination of a text         *)
(* definition and of full, partial and absent references.                  *)

\* A full reference, one with a NULL column, and none.
CsRefInputs == {Epsg("6422"), <<"EPSG", NULL>>, NoRef}

DatumRefInputs == {Epsg("6326"), <<NULL, "6326">>, NoRef}

AreaRefInputs == {Epsg("1262"), <<"EPSG", NULL>>, NoRef}

GeodeticCrsInputs ==
    {GeodeticCrsRow(Epsg(code), "geographic 2D", cs, datum, area, text, 0) :
        code \in {"4326", "4267"}, cs \in CsRefInputs, datum \in DatumRefInputs,
        area \in AreaRefInputs, text \in {NULL, "+proj=longlat +datum=WGS84"}}

InitGeodeticCrs == db = ReferenceLoaded /\ last = NoStatement

NextGeodeticCrs == InsertGeodeticCrs(GeodeticCrsInputs)

SpecGeodeticCrs == InitGeodeticCrs /\ [][NextGeodeticCrs]_vars

\* A reference is present when both of its columns are set.
Present(auth_name, code) == auth_name # NULL /\ code # NULL

Structured(g) ==
    /\ g.text_definition = NULL
    /\ Present(g.coordinate_system_auth_name, g.coordinate_system_code)
    /\ Present(g.datum_auth_name, g.datum_code)
    /\ Present(g.area_of_use_auth_name, g.area_of_use_code)

Opaque(g) ==
    /\ g.text_definition # NULL
    /\ ~Present(g.coordinate_system_auth_name, g.coordinate_system_code)
    /\ ~Present(g.datum_auth_name, g.datum_code)
    /\ ~Present(g.area_of_use_auth_name, g.area_of_use_code)

OpaqueButForArea(g) ==
    /\ g.text_definition # NULL
    /\ ~Present(g.coordinate_system_auth_name, g.coordinate_system_code)
    /\ ~Present(g.datum_auth_name, g.datum_code)

\* C9 as stated: every stored geodetic CRS is structured (no text
\* definition; coordinate system, datum and area all present) or opaque (a
\* text definition; none of coordinate system, datum and area present), and
\* the insert of any other form is rejected.
C9_AsStated ==
    /\ \A g \in db.geodetic_crs : Structured(g) \/ Opaque(g)
    /\ (last.table = "geodetic_crs" /\ ~(Structured(last.row) \/ Opaque(last.row)))
           => last.err # OK

\* C9: every stored geodetic CRS is structured (no text definition;
\* coordinate system, datum and area all present) or has a text definition
\* and neither a coordinate system nor a datum, with or without an area; the
\* insert of any other form is rejected.
C9_StructuredOrTextWithoutCsAndDatum ==
    /\ \A g \in db.geodetic_crs : Structured(g) \/ OpaqueButForArea(g)
    /\ (last.table = "geodetic_crs" /\ ~(Structured(last.row) \/ OpaqueButForArea(last.row)))
           => last.err # OK

\* A geodetic CRS with a text definition and an area is stored, and the
\* insert of one with a text definition and a datum has just been rejected.
C9_Witness ==
    /\ \E g \in db.geodetic_crs :
           g.text_definition # NULL /\ Present(g.area_of_use_auth_name, g.area_of_use_code)
    /\ last.table = "geodetic_crs"
    /\ last.row.text_definition # NULL /\ Present(last.row.datum_auth_name, last.row.datum_code)
    /\ ~Present(last.row.coordinate_system_auth_name, last.row.coordinate_system_code)
    /\ last.err = "insert on geodetic_crs violates constraint: datum must NOT be defined when text_definition is NOT NULL"

-----------------------------------------------------------------------------
(* Rows of the view conversion and of projected_crs.                       *)

NoParam ==
    [auth_name |-> NULL, code |-> NULL, name |-> NULL, value |-> NullNum,
     uom_auth_name |-> NULL, uom_code |-> NULL]

Param(code, name, value, uom) ==
    [auth_name |-> "EPSG", code |-> code, name |-> name, value |-> value,
     uom_auth_name |-> "EPSG", uom_code |-> uom]

\* method is <<auth_name, code, name>>; the slots after those of params are NULL.
ConversionRow(key, area, method, params, dep) ==
    [auth_name |-> key[1], code |-> key[2],
     area_of_use_auth_name |-> area[1], area_of_use_code |-> area[2],
     method_auth_name |-> method[1], method_code |-> method[2], method_name |-> method[3],
     param |-> params \o [i \in 1..(7 - Len(params)) |-> NoParam],
     deprecated |-> dep]

TransverseMercator == <<"EPSG", "9807", "Transverse Mercator">>

UtmZone31N ==
    ConversionRow(Epsg("16031"), Epsg("1262"), TransverseMercator,
                  <<Param("8801", "Latitude of natural origin", 0, "9102"),
                    Param("8802", "Longitude of natural origin", 3, "9102")>>, 0)

ProjectedCrsRow(key, cs, geodetic_crs, conv, area, text, dep) ==
    [auth_name |-> key[1], code |-> key[2],
     coordinate_system_auth_name |-> cs[1], coordinate_system_code |-> cs[2],
     geodetic_crs_auth_name |-> geodetic_crs[1], geodetic_crs_code |-> geodetic_crs[2],
     conversion_auth_name |-> conv[1], conversion_code |-> conv[2],
     area_of_use_auth_name |-> area[1], area_of_use_code |-> area[2],
     text_definition |-> text, deprecated |-> dep]

\* CrsLoaded and a conversion, inserted through the view.
ConversionLoaded == Load(CrsLoaded, << <<"conversion", UtmZone31N>> >>)

-----------------------------------------------------------------------------
(* SpecProjectedCrs: projected CRSs with every combination of a text       *)
(* definition and of references.                                           *)

\* Every combination under one code, and under a second code the two forms
\* that can be stored beside them.
ProjectedCrsInputs ==
    {ProjectedCrsRow(Epsg("32631"), cs, geodetic_crs, conv, area, text, 0) :
        cs \in {Epsg("4400"), NoRef}, geodetic_crs \in {Epsg("4326"), NoRef},
        conv \in {Epsg("16031"), <<"EPSG", NULL>>, NoRef},
        area \in {Epsg("1262"), NoRef}, text \in {NULL, "+proj=utm +zone=31 +datum=WGS84"}}
    \cup {ProjectedCrsRow(Epsg("32632"), Epsg("4400"), Epsg("4326"), Epsg("16031"),
                          Epsg("1262"), NULL, 0),
          ProjectedCrsRow(Epsg("32632"), NoRef, Epsg("4326"), NoRef, NoRef,
                          "+proj=utm +zone=32 +datum=WGS84", 0)}

InitProjectedCrs == db = ConversionLoaded /\ last = NoStatement

NextProjectedCrs == InsertProjectedCrs(ProjectedCrsInputs)

SpecProjectedCrs == InitProjectedCrs /\ [][NextProjectedCrs]_vars

StructuredProjected(p) ==
    /\ p.text_definition = NULL
    /\ Present(p.coordinate_system_auth_name, p.coordinate_system_code)
    /\ Present(p.geodetic_crs_auth_name, p.geodetic_crs_code)
    /\ Present(p.conversion_auth_name, p.conversion_code)
    /\ Present(p.area_of_use_auth_name, p.area_of_use_code)

OpaqueProjected(p) ==
    /\ p.text_definition # NULL
    /\ ~Present(p.coordinate_system_auth_name, p.coordinate_system_code)
    /\ ~Present(p.geodetic_crs_auth_name, p.geodetic_crs_code)
    /\ ~Present(p.conversion_auth_name, p.conversion_code)

OpaqueButForBase(p) ==
    /\ p.text_definition # NULL
    /\ ~Present(p.coordinate_system_auth_name, p.coordinate_system_code)
    /\ ~Present(p.conversion_auth_name, p.conversion_code)

\* C10 as stated: a stored projected CRS with a text definition has none of
\* coordinate system, base geodetic CRS and conversion; one without has
\* coordinate system, base geodetic CRS, conversion and area.
C10_AsStated ==
    \A p \in db.projected_crs : StructuredProjected(p) \/ OpaqueProjected(p)

\* C10: a stored projected CRS with a text definition has neither a
\* coordinate system nor a conversion, with or without a base geodetic CRS;
\* one without a text definition has coordinate system, base geodetic CRS,
\* conversion and area; the insert of any other form is rejected.
C10_StructuredOrTextWithoutCsAndConversion ==
    /\ \A p \in db.projected_crs : StructuredProjected(p) \/ OpaqueButForBase(p)
    /\ (/\ last.table = "projected_crs"
        /\ ~(StructuredProjected(last.row) \/ OpaqueButForBase(last.row)))
           => last.err # OK

\* A projected CRS with a text definition and a base geodetic CRS is stored,
\* and the insert of one with a text definition and a conversion has just
\* been rejected.
C10_Witness ==
    /\ \E p \in db.projected_crs :
           p.text_definition # NULL /\ Present(p.geodetic_crs_auth_name, p.geodetic_crs_code)
    /\ last.table = "projected_crs"
    /\ last.row.text_definition # NULL
    /\ Present(last.row.conversion_auth_name, last.row.conversion_code)
    /\ ~Present(last.row.coordinate_system_auth_name, last.row.coordinate_system_code)
    /\ last.err = "insert on projected_crs violates constraint: conversion must NOT be defined when text_definition is NULL"

-----------------------------------------------------------------------------
(* SpecCrsNamespace: the four CRS kinds, inserted in any order under the   *)
(* same keys.                                                              *)

VerticalCrsRow(key, cs, datum, area, dep) ==
    [auth_name |-> key[1], code |-> key[2],
     coordinate_system_auth_name |-> cs[1], coordinate_system_code |-> cs[2],
     datum_auth_name |-> datum[1], datum_code |-> datum[2],
     area_of_use_auth_name |-> area[1], area_of_use_code |-> area[2], deprecated |-> dep]

CompoundCrsRow(key, horiz_crs, vertical_crs, area, dep) ==
    [auth_name |-> key[1], code |-> key[2],
     horiz_crs_auth_name |-> horiz_crs[1], horiz_crs_code |-> horiz_crs[2],
     vertical_crs_auth_name |-> vertical_crs[1], vertical_crs_code |-> vertical_crs[2],
     area_of_use_auth_name |-> area[1], area_of_use_code |-> area[2], deprecated |-> dep]

\* The key of the loaded geodetic CRS, and three free ones: two authorities
\* with the same code, one authority with two codes.
CrsKeys == {Epsg("4326"), Epsg("5701"), <<"ESRI", "5701">>, Epsg("7405")}

NamespaceGeodeticInputs ==
    {GeodeticCrsRow(key, "geographic 2D", Epsg("6422"), Epsg("6326"), Epsg("1262"), NULL, dep) :
        key \in CrsKeys, dep \in {0, 1}}

NamespaceProjectedInputs ==
    {ProjectedCrsRow(key, Epsg("4400"), Epsg("4326"), Epsg("16031"), Epsg("1262"), NULL, dep) :
        key \in CrsKeys, dep \in {0, 1}}

NamespaceVerticalInputs ==
    {VerticalCrsRow(key, Epsg("6499"), Epsg("5100"), Epsg("1262"), dep) :
        key \in CrsKeys, dep \in {0, 1}}

NamespaceCompoundInputs ==
    {CompoundCrsRow(key, Epsg("4326"), vertical_crs, Epsg("1262"), dep) :
        key \in CrsKeys, vertical_crs \in CrsKeys \ {Epsg("4326")}, dep \in {0, 1}}

\* ReferenceLoaded, one geodetic CRS and a conversion.
BaseCrsLoaded ==
    Load(ReferenceLoaded, << <<"geodetic_crs", Wgs84>>, <<"conversion", UtmZone31N>> >>)

InitCrsNamespace == db = BaseCrsLoaded /\ last = NoStatement

NextCrsNamespace ==
    \/ InsertGeodeticCrs(NamespaceGeodeticInputs)
    \/ InsertProjectedCrs(NamespaceProjectedInputs)
    \/ InsertVerticalCrs(NamespaceVerticalInputs)
    \/ InsertCompoundCrs(NamespaceCompoundInputs)

SpecCrsNamespace == InitCrsNamespace /\ [][NextCrsNamespace]_vars

\* The rows of a view or table that hold the key (auth_name, code).
Holders(rows, auth_name, code) == {r \in rows : r.auth_name = auth_name /\ r.code = code}

CrsTables == {"geodetic_crs", "projected_crs", "vertical_crs", "compound_crs"}

\* C5: no (auth_name, code) is held by two CRS records: crs_view holds each
\* key at most once, and the insert of a CRS under a key that a CRS of
\* another kind holds is rejected.
C5_OneCrsPerKey ==
    /\ \A r \in crs_view(db) : Cardinality(Holders(crs_view(db), r.auth_name, r.code)) = 1
    /\ \A t1, t2 \in CrsTables :
           \A r1 \in db[t1], r2 \in db[t2] :
               (r1.auth_name = r2.auth_name /\ r1.code = r2.code) => (t1 = t2 /\ r1 = r2)
    /\ (/\ last.table \in CrsTables
        /\ \E r \in Holders(crs_view(db), last.row.auth_name, last.row.code) :
               r.table_name # last.table)
           => last.err # OK

\* A CRS of each of the four kinds is stored, and the insert of a CRS under
\* a key that a CRS of another kind holds has just been rejected by the
\* namespace step.
C5_Witness ==
    /\ \A t \in CrsTables : db[t] # {}
    /\ last.table \in CrsTables
    /\ last.err = CrsExistsMessage(last.table)
    /\ \E r \in Holders(crs_view(db), last.row.auth_name, last.row.code) :
           r.table_name # last.table

-----------------------------------------------------------------------------
(* Rows of the view helmert_transformation, of other_transformation and of *)
(* concatenated_operation.                                                 *)

\* A position vector transformation: translations in metres, no other group.
HelmertRow(key, source, target, dep) ==
    [auth_name |-> key[1], code |-> key[2],
     method_auth_name |-> "EPSG", method_code |-> "9603",
     method_name |-> "Geocentric translations (geog2D domain)",
     source_crs_auth_name |-> source[1], source_crs_code |-> source[2],
     target_crs_auth_name |-> target[1], target_crs_code |-> target[2],
     area_of_use_auth_name |-> "EPSG", area_of_use_code |-> "1262", accuracy |-> 1,
     tx |-> 0, ty |-> 0, tz |-> 0,
     translation_uom_auth_name |-> "EPSG", translation_uom_code |-> "9001",
     rotation_uom_auth_name |-> NULL, rotation_uom_code |-> NULL,
     scale_difference_uom_auth_name |-> NULL, scale_difference_uom_code |-> NULL,
     rate_translation_uom_auth_name |-> NULL, rate_translation_uom_code |-> NULL,
     rate_rotation_uom_auth_name |-> NULL, rate_rotation_uom_code |-> NULL,
     rate_scale_difference_uom_auth_name |-> NULL, rate_scale_difference_uom_code |-> NULL,
     epoch_uom_auth_name |-> NULL, epoch_uom_code |-> NULL,
     pivot_uom_auth_name |-> NULL, pivot_uom_code |-> NULL,
     deprecated |-> dep]

OtherTransformationRow(key, source, target, dep) ==
    [auth_name |-> key[1], code |-> key[2],
     method_auth_name |-> "PROJ", method_code |-> "PROJString",
     method_name |-> "+proj=pipeline +step +proj=axisswap +order=2,1",
     source_crs_auth_name |-> source[1], source_crs_code |-> source[2],
     target_crs_auth_name |-> target[1], target_crs_code |-> target[2],
     area_of_use_auth_name |-> "EPSG", area_of_use_code |-> "1262", accuracy |-> 1,
     param |-> [i \in 1..7 |-> NoParam], deprecated |-> dep]

ConcatenatedOperationRow(key, source, target, step1, step2, step3, dep) ==
    [auth_name |-> key[1], code |-> key[2],
     source_crs_auth_name |-> source[1], source_crs_code |-> source[2],
     target_crs_auth_name |-> target[1], target_crs_code |-> target[2],
     area_of_use_auth_name |-> "EPSG", area_of_use_code |-> "1262", accuracy |-> 1,
     step1_auth_name |-> step1[1], step1_code |-> step1[2],
     step2_auth_name |-> step2[1], step2_code |-> step2[2],
     step3_auth_name |-> step3[1], step3_code |-> step3[2],
     deprecated |-> dep]

\* CrsLoaded, a Helmert transformation inserted through its view, and a grid
\* transformation.
OperationsLoaded ==
    Load(CrsLoaded, <<
        <<"helmert_transformation", HelmertRow(Epsg("1173"), Epsg("4267"), Epsg("4326"), 0)>>,
        <<"grid_transformation",
          GridTransformationRow(Epsg("1312"), Epsg("4267"), Epsg("4326"), "ntv1_can.dat", NULL,
                                0)>> >>)

OperationTables ==
    {"conversion_table", "helmert_transformation_table", "grid_transformation",
     "other_transformation", "concatenated_operation"}

\* The table an INSERT statement on a relation adds the operation to.
OperationTable(relation) ==
    CASE relation = "conversion" -> "conversion_table"
      [] relation = "helmert_transformation" -> "helmert_transformation_table"
      [] relation \notin Views -> relation

\* The name coordinate_operation_view gives the rows of a table.
OperationType(table) ==
    CASE table = "conversion_table" -> "conversion"
      [] table = "helmert_transformation_table" -> "helmert_transformation"
      [] table \notin {"conversion_table", "helmert_transformation_table"} -> table

-----------------------------------------------------------------------------
(* SpecOperationNamespace: the five operation kinds, inserted in any order *)
(* under the same keys.                                                    *)

\* The key of the loaded Helmert transformation, and three free ones.
OperationKeys == {Epsg("1173"), Epsg("8047"), <<"ESRI", "8047">>, Epsg("8048")}

NamespaceConversionInputs ==
    {ConversionRow(key, Epsg("1262"), TransverseMercator, <<>>, 0) : key \in OperationKeys}

NamespaceHelmertInputs ==
    {HelmertRow(key, Epsg("4267"), Epsg("4326"), 0) : key \in OperationKeys}

NamespaceGridInputs ==
    {GridTransformationRow(key, Epsg("4267"), Epsg("4326"), "conus", NULL, 0) :
        key \in OperationKeys}

NamespaceOtherInputs ==
    {OtherTransformationRow(key, Epsg("4326"), Epsg("4267"), 0) : key \in OperationKeys}

NamespaceConcatenatedInputs ==
    {ConcatenatedOperationRow(key, Epsg("4267"), Epsg("4326"), Epsg("1173"), Epsg("1312"),
                              NoRef, 0) : key \in OperationKeys}

InitOperationNamespace == db = OperationsLoaded /\ last = NoStatement

NextOperationNamespace ==
    \/ InsertConversion(NamespaceConversionInputs)
    \/ InsertConversionTable({ConversionTableRow(c) : c \in NamespaceConversionInputs})
    \/ InsertHelmertTransformation(NamespaceHelmertInputs)
    \/ InsertGridTransformation(NamespaceGridInputs)
    \/ InsertOtherTransformation(NamespaceOtherInputs)
    \/ InsertConcatenatedOperation(NamespaceConcatenatedInputs)

SpecOperationNamespace == InitOperationNamespace /\ [][NextOperationNamespace]_vars

\* C6: no (auth_name, code) is held by two operation records:
\* coordinate_operation_with_conversion_view holds each key at most once,
\* and the insert of an operation under a key that an operation of another
\* kind holds is rejected.
C6_OneOperationPerKey ==
    /\ \A r \in coordinate_operation_with_conversion_view(db) :
           Cardinality(Holders(coordinate_operation_with_conversion_view(db),
                               r.auth_name, r.code)) = 1
    /\ \A t1, t2 \in OperationTables :
           \A r1 \in db[t1], r2 \in db[t2] :
               (r1.auth_name = r2.auth_name /\ r1.code = r2.code) => (t1 = t2 /\ r1 = r2)
    /\ (/\ OperationTable(last.table) \in OperationTables
        /\ \E r \in Holders(coordinate_operation_with_conversion_view(db),
                            last.row.auth_name, last.row.code) :
               r.type # OperationType(OperationTable(last.table)))
           => last.err # OK

\* An operation of each of the five kinds is stored, and the insert of an
\* operation under a key that an operation of another kind holds has just
\* been rejected by the namespace step.
C6_Witness ==
    /\ \A t \in OperationTables : db[t] # {}
    /\ OperationTable(last.table) \in OperationTables
    /\ last.err = OperationExistsMessage(IF last.table = "conversion" THEN "conversion_table"
                                         ELSE last.table)
    /\ \E r \in Holders(coordinate_operation_with_conversion_view(db),
                        last.row.auth_name, last.row.code) :
           r.type # OperationType(OperationTable(last.table))

-----------------------------------------------------------------------------
(* SpecConcatenated: concatenated operations whose steps name loaded, new  *)
(* and concatenated operations, among inserts of the other four kinds.     *)

FreeOperationKeys == {Epsg("8047"), <<"ESRI", "8047">>}

ConcatenatedInputs ==
    {ConcatenatedOperationRow(key, Epsg("4267"), Epsg("4326"), step1, step2, step3, 0) :
        key \in FreeOperationKeys,
        step1 \in {Epsg("1173")} \cup FreeOperationKeys,
        step2 \in {Epsg("1312"), Epsg("8047")},
        step3 \in {NoRef, <<"ESRI", "8047">>, <<NULL, "8047">>}}

StepConversionInputs ==
    {ConversionRow(key, Epsg("1262"), TransverseMercator, <<>>, 0) : key \in FreeOperationKeys}

StepHelmertInputs ==
    {HelmertRow(key, Epsg("4267"), Epsg("4326"), 0) : key \in FreeOperationKeys}

StepGridInputs ==
    {GridTransformationRow(key, Epsg("4267"), Epsg("4326"), "conus", NULL, 0) :
        key \in FreeOperationKeys}

StepOtherInputs ==
    {OtherTransformationRow(key, Epsg("4326"), Epsg("4267"), 0) : key \in FreeOperationKeys}

InitConcatenated == db = OperationsLoaded /\ last = NoStatement

NextConcatenated ==
    \/ InsertConversion(StepConversionInputs)
    \/ InsertHelmertTransformation(StepHelmertInputs)
    \/ InsertGridTransformation(StepGridInputs)
    \/ InsertOtherTransformation(StepOtherInputs)
    \/ InsertConcatenatedOperation(ConcatenatedInputs)

SpecConcatenated == InitConcatenated /\ [][NextConcatenated]_vars

\* The step references of a concatenated operation.
Steps(c) ==
    {<<c.step1_auth_name, c.step1_code>>, <<c.step2_auth_name, c.step2_code>>,
     <<c.step3_auth_name, c.step3_code>>}

\* The reference names a stored concatenated operation.
IsConcatenatedOperation(step) == Holders(db.concatenated_operation, step[1], step[2]) # {}

\* C4: no step of a stored concatenated operation resolves to a concatenated
\* operation; the insert of a concatenated operation with such a step is
\* rejected, and so is the insert of a concatenated operation under the key
\* that a step of a stored one names.
C4_NoConcatenatedStep ==
    /\ \A c \in db.concatenated_operation : \A step \in Steps(c) : ~IsConcatenatedOperation(step)
    /\ (/\ last.table = "concatenated_operation"
        /\ \E step \in Steps(last.row) : IsConcatenatedOperation(step))
           => last.err # OK
    /\ (/\ last.table = "concatenated_operation"
        /\ \E c \in db.concatenated_operation :
               <<last.row.auth_name, last.row.code>> \in Steps(c))
           => last.err # OK

\* A concatenated operation is stored, and the insert of another one, under
\* a free key, with the stored one as a step has just been rejected by the
\* step's rule.
C4_Witness ==
    /\ db.concatenated_operation # {}
    /\ last.table = "concatenated_operation"
    /\ Holders(coordinate_operation_with_conversion_view(db),
               last.row.auth_name, last.row.code) = {}
    /\ \E step \in Steps(last.row) : IsConcatenatedOperation(step)
    /\ last.err \in {"insert on concatenated_operation violates constraint: step1 should not be a concatenated_operation",
                     "insert on concatenated_operation violates constraint: step2 should not be a concatenated_operation",
                     "insert on concatenated_operation violates constraint: step3 should not be a concatenated_operation"}

-----------------------------------------------------------------------------
(* SpecGeodeticCrsDeprecation: geodetic CRSs, deprecated and not, that     *)
(* reference current and deprecated datums and areas.                      *)

\* ReferenceLoaded, a deprecated area, a deprecated geodetic datum, a
\* deprecated vertical datum and the coordinate systems of three dimensions.
DeprecatedLoaded ==
    Load(ReferenceLoaded, <<
        <<"area", AreaRow("1263", NoBounds, NoBounds, 1)>>,
        <<"geodetic_datum", GeodeticDatumRow("6135", "7030", "8901", "1262", 1)>>,
        <<"vertical_datum", VerticalDatumRow("5101", "1262", 1)>>,
        <<"coordinate_system", CoordinateSystemRow("6423", "ellipsoidal", 3)>>,
        <<"coordinate_system", CoordinateSystemRow("6500", "Cartesian", 3)>> >>)

DeprecationGeodeticInputs ==
    {GeodeticCrsRow(Epsg(code), "geographic 2D", Epsg("6422"), datum, area, NULL, dep) :
        code \in {"4326", "4135"}, datum \in {Epsg("6326"), Epsg("6135")},
        area \in {Epsg("1262"), Epsg("1263")}, dep \in {0, 1}}
    \cup {GeodeticCrsRow(Epsg(code), "geographic 2D", NoRef, NoRef, area,
                         "+proj=longlat +ellps=WGS84", dep) :
             code \in {"4326", "4135"}, area \in {NoRef, Epsg("1262"), Epsg("1263")},
             dep \in {0, 1}}

InitGeodeticCrsDeprecation == db = DeprecatedLoaded /\ last = NoStatement

NextGeodeticCrsDeprecation == InsertGeodeticCrs(DeprecationGeodeticInputs)

SpecGeodeticCrsDeprecation == InitGeodeticCrsDeprecation /\ [][NextGeodeticCrsDeprecation]_vars

\* A non-deprecated structured geodetic CRS whose datum or area is deprecated.
CurrentOnDeprecated(g) ==
    /\ g.deprecated = 0 /\ g.text_definition = NULL
    /\ \/ Deprecated(db.geodetic_datum, g.datum_auth_name, g.datum_code)
       \/ Deprecated(db.area, g.area_of_use_auth_name, g.area_of_use_code)

\* C11: no stored non-deprecated structured geodetic CRS references a
\* deprecated geodetic datum or a deprecated area, and the insert of one
\* that does is rejected.
C11_AsStated ==
    /\ \A g \in db.geodetic_crs : ~CurrentOnDeprecated(g)
    /\ (last.table = "geodetic_crs" /\ CurrentOnDeprecated(last.row)) => last.err # OK

-----------------------------------------------------------------------------
(* SpecProjectedCrsDeprecation: projected CRSs of two authorities,         *)
(* deprecated and not, on current and deprecated base CRSs, conversions    *)
(* and areas.                                                              *)

\* DeprecatedLoaded, a current and a deprecated geodetic CRS, a current and
\* a deprecated conversion.
ProjectedReferencesLoaded ==
    Load(DeprecatedLoaded, <<
        <<"geodetic_crs", Wgs84>>,
        <<"geodetic_crs",
          GeodeticCrsRow(Epsg("4135"), "geographic 2D", Epsg("6422"), Epsg("6135"), Epsg("1262"),
                         NULL, 1)>>,
        <<"conversion", UtmZone31N>>,
        <<"conversion",
          ConversionRow(Epsg("16032"), Epsg("1262"), TransverseMercator, <<>>, 1)>> >>)

DeprecationProjectedInputs ==
    {ProjectedCrsRow(key, Epsg("4400"), geodetic_crs, conv, area, NULL, dep) :
        key \in {Epsg("32631"), <<"ESRI", "102001">>},
        geodetic_crs \in {Epsg("4326"), Epsg("4135")},
        conv \in {Epsg("16031"), Epsg("16032")},
        area \in {Epsg("1262"), Epsg("1263")}, dep \in {0, 1}}

InitProjectedCrsDeprecation == db = ProjectedReferencesLoaded /\ last = NoStatement

NextProjectedCrsDeprecation == InsertProjectedCrs(DeprecationProjectedInputs)

SpecProjectedCrsDeprecation ==
    InitProjectedCrsDeprecation /\ [][NextProjectedCrsDeprecation]_vars

\* A non-deprecated projected CRS whose base geodetic CRS, conversion or area
\* is deprecated.
CurrentProjectedOnDeprecated(p) ==
    /\ p.deprecated = 0
    /\ \/ Deprecated(db.geodetic_crs, p.geodetic_crs_auth_name, p.geodetic_crs_code)
       \/ Deprecated(conversion(db), p.conversion_auth_name, p.conversion_code)
       \/ Deprecated(db.area, p.area_of_use_auth_name, p.area_of_use_code)

\* C12: no stored non-deprecated projected CRS, of any authority, references
\* a deprecated base geodetic CRS, conversion or area, and the insert of one
\* that does is rejected.
C12_AsStated ==
    /\ \A p \in db.projected_crs : ~CurrentProjectedOnDeprecated(p)
    /\ (last.table = "projected_crs" /\ CurrentProjectedOnDeprecated(last.row))
           => last.err # OK

-----------------------------------------------------------------------------
(* SpecGeodeticCrsType: geodetic CRSs of the three types, deprecated and   *)
(* not, on coordinate systems of every loaded type and dimension.          *)

CoordinateSystemKeys ==
    {Epsg("6422"), Epsg("6423"), Epsg("4400"), Epsg("6500"), Epsg("6499")}

GeodeticCrsTypes == {"geographic 2D", "geographic 3D", "geocentric"}

TypeGeodeticInputs ==
    {GeodeticCrsRow(Epsg(code), type, cs, Epsg("6326"), Epsg("1262"), NULL, dep) :
        code \in {"4326", "4978"}, type \in GeodeticCrsTypes, cs \in CoordinateSystemKeys,
        dep \in {0, 1}}
    \cup {GeodeticCrsRow(Epsg("4326"), type, NoRef, NoRef, NoRef, "+proj=geocent +ellps=WGS84", 0) :
             type \in GeodeticCrsTypes}

InitGeodeticCrsType == db = DeprecatedLoaded /\ last = NoStatement

NextGeodeticCrsType == InsertGeodeticCrs(TypeGeodeticInputs)

SpecGeodeticCrsType == InitGeodeticCrsType /\ [][NextGeodeticCrsType]_vars

\* The coordinate system a CRS row references: its row, if it is stored.
CoordinateSystemOf(row) ==
    Holders(db.coordinate_system, row.coordinate_system_auth_name, row.coordinate_system_code)

\* The coordinate system is one of the type and the dimension.
OnCoordinateSystem(row, type, dimensions) ==
    \E cs \in CoordinateSystemOf(row) : cs.type = type /\ cs.dimension \in dimensions

\* The coordinate system the claim requires for the type of the CRS.
MatchesType(g) ==
    CASE g.type = "geocentric" -> OnCoordinateSystem(g, "Cartesian", {3})
      [] g.type = "geographic 2D" -> OnCoordinateSystem(g, "ellipsoidal", {2})
      [] g.type = "geographic 3D" -> OnCoordinateSystem(g, "ellipsoidal", {3})

\* The same, with either dimension for a deprecated geographic 2D CRS.
MatchesTypeUnlessDeprecated(g) ==
    \/ MatchesType(g)
    \/ g.type = "geographic 2D" /\ g.deprecated = 1
          /\ OnCoordinateSystem(g, "ellipsoidal", {2, 3})

\* C13 as stated: every stored structured geodetic CRS, deprecated or not,
\* is on the coordinate system its type requires: geocentric on Cartesian of
\* dimension 3, geographic 2D on ellipsoidal of dimension 2, geographic 3D on
\* ellipsoidal of dimension 3.
C13_AsStated == \A g \in db.geodetic_crs : Structured(g) => MatchesType(g)

\* C13: every stored structured geodetic CRS is on the coordinate system its
\* type requires, except that a deprecated geographic 2D CRS may be on an
\* ellipsoidal coordinate system of dimension 3; the insert of a structured
\* CRS on any other coordinate system is rejected.
C13_MatchingCoordinateSystem ==
    /\ \A g \in db.geodetic_crs : Structured(g) => MatchesTypeUnlessDeprecated(g)
    /\ (/\ last.table = "geodetic_crs" /\ Structured(last.row)
        /\ ~MatchesTypeUnlessDeprecated(last.row))
           => last.err # OK

\* A deprecated geographic 2D CRS on the ellipsoidal coordinate system of
\* dimension 3 is stored, and the insert of a non-deprecated one on that
\* coordinate system has just been rejected by the dimension step.
C13_Witness ==
    /\ \E g \in db.geodetic_crs :
           /\ Structured(g) /\ g.type = "geographic 2D" /\ g.deprecated = 1
           /\ OnCoordinateSystem(g, "ellipsoidal", {3})
    /\ last.table = "geodetic_crs" /\ Structured(last.row)
    /\ last.row.type = "geographic 2D" /\ last.row.deprecated = 0
    /\ OnCoordinateSystem(last.row, "ellipsoidal", {3})
    /\ last.err = "insert on geodetic_crs violates constraint: coordinate_system.dimension must be 2 for type = 'geographic 2D'"

-----------------------------------------------------------------------------
(* SpecProjectedCrsType: projected CRSs on coordinate systems of every     *)
(* loaded type and dimension, the topocentric EPSG:4461 among them.        *)

\* DeprecatedLoaded, the topocentric coordinate system, a geodetic CRS and a
\* conversion.
TopocentricLoaded ==
    Load(DeprecatedLoaded, <<
        <<"coordinate_system", CoordinateSystemRow("4461", "Cartesian", 3)>>,
        <<"geodetic_crs", Wgs84>>,
        <<"conversion", UtmZone31N>> >>)

TypeProjectedInputs ==
    {ProjectedCrsRow(Epsg(code), cs, Epsg("4326"), Epsg("16031"), Epsg("1262"), NULL, dep) :
        code \in {"32631", "5819"}, cs \in CoordinateSystemKeys \cup {Epsg("4461")},
        dep \in {0, 1}}
    \cup {ProjectedCrsRow(Epsg("32631"), NoRef, NoRef, NoRef, NoRef,
                          "+proj=utm +zone=31 +datum=WGS84", 0)}

InitProjectedCrsType == db = TopocentricLoaded /\ last = NoStatement

NextProjectedCrsType == InsertProjectedCrs(TypeProjectedInputs)

SpecProjectedCrsType == InitProjectedCrsType /\ [][NextProjectedCrsType]_vars

\* The coordinate system is EPSG:4461, the one the dimension step leaves out.
OnTopocentric(p) == p.coordinate_system_auth_name = "EPSG" /\ p.coordinate_system_code = "4461"

\* C14 as stated: every stored structured projected CRS is on a Cartesian
\* coordinate system of dimension 2, and the insert of a structured one on a
\* coordinate system of another type or dimension is rejected.
C14_AsStated ==
    /\ \A p \in db.projected_crs :
           StructuredProjected(p) => OnCoordinateSystem(p, "Cartesian", {2})
    /\ (/\ last.table = "projected_crs" /\ StructuredProjected(last.row)
        /\ ~OnCoordinateSystem(last.row, "Cartesian", {2}))
           => last.err # OK

\* C14: every stored structured projected CRS is on a Cartesian coordinate
\* system, of dimension 2 unless it is coordinate system EPSG:4461, and the
\* insert of a structured one on any other coordinate system is rejected.
C14_CartesianOfDimension2UnlessTopocentric ==
    /\ \A p \in db.projected_crs :
           StructuredProjected(p)
               => OnCoordinateSystem(p, "Cartesian", IF OnTopocentric(p) THEN {2, 3} ELSE {2})
    /\ (/\ last.table = "projected_crs" /\ StructuredProjected(last.row)
        /\ ~OnCoordinateSystem(last.row, "Cartesian",
                               IF OnTopocentric(last.row) THEN {2, 3} ELSE {2}))
           => last.err # OK

\* A projected CRS on the topocentric coordinate system, of dimension 3, is
\* stored, and the insert of one on another Cartesian coordinate system of
\* dimension 3 has just been rejected by the dimension step.
C14_Witness ==
    /\ \E p \in db.projected_crs :
           StructuredProjected(p) /\ OnTopocentric(p) /\ OnCoordinateSystem(p, "Cartesian", {3})
    /\ last.table = "projected_crs" /\ StructuredProjected(last.row)
    /\ ~OnTopocentric(last.row) /\ OnCoordinateSystem(last.row, "Cartesian", {3})
    /\ last.err = "insert on projected_crs violates constraint: coordinate_system.dimension must be 2"

-----------------------------------------------------------------------------
(* SpecCompoundCrs: compound CRSs, deprecated and not, whose components    *)
(* name CRSs of every kind, current, deprecated and missing.               *)

\* DeprecatedLoaded, three geodetic CRSs (a current and a deprecated
\* geographic 2D one, a geocentric one), a conversion and a projected CRS.
ComponentsLoaded ==
    Load(DeprecatedLoaded, <<
        <<"geodetic_crs", Wgs84>>,
        <<"geodetic_crs",
          GeodeticCrsRow(Epsg("4135"), "geographic 2D", Epsg("6422"), Epsg("6326"), Epsg("1262"),
                         NULL, 1)>>,
        <<"geodetic_crs",
          GeodeticCrsRow(Epsg("4978"), "geocentric", Epsg("6500"), Epsg("6326"), Epsg("1262"),
                         NULL, 0)>>,
        <<"conversion", UtmZone31N>>,
        <<"projected_crs",
          ProjectedCrsRow(Epsg("32631"), Epsg("4400"), Epsg("4326"), Epsg("16031"),
                          Epsg("1262"), NULL, 0)>> >>)

ComponentVerticalInputs ==
    {VerticalCrsRow(Epsg("5701"), Epsg("6499"), Epsg("5100"), Epsg("1262"), dep) :
        dep \in {0, 1}}

\* Every combination of components under one key; under a second key, and on
\* the deprecated area, the components that can be stored.
CompoundCrsInputs ==
    {CompoundCrsRow(Epsg("7405"), horiz_crs, vertical_crs, Epsg("1262"), dep) :
        horiz_crs \in {Epsg("4326"), Epsg("4135"), Epsg("4978"), Epsg("32631"), Epsg("5701"),
                       Epsg("9999")},
        vertical_crs \in {Epsg("5701"), Epsg("4326"), Epsg("9999")}, dep \in {0, 1}}
    \cup {CompoundCrsRow(key, Epsg("32631"), Epsg("5701"), area, dep) :
             key \in {Epsg("7405"), Epsg("7406")}, area \in {Epsg("1262"), Epsg("1263")},
             dep \in {0, 1}}

InitCompoundCrs == db = ComponentsLoaded /\ last = NoStatement

NextCompoundCrs ==
    \/ InsertVerticalCrs(ComponentVerticalInputs)
    \/ InsertCompoundCrs(CompoundCrsInputs)

SpecCompoundCrs == InitCompoundCrs /\ [][NextCompoundCrs]_vars

\* The horizontal component is a geographic 2D or projected CRS of crs_view,
\* and the vertical component a vertical CRS.
ComponentsOfTheirKinds(c) ==
    /\ \E h \in Holders(crs_view(db), c.horiz_crs_auth_name, c.horiz_crs_code) :
           h.type \in {"geographic 2D", "projected"}
    /\ Holders(db.vertical_crs, c.vertical_crs_auth_name, c.vertical_crs_code) # {}

\* A component or the area of the compound CRS is deprecated.
OnDeprecatedComponent(c) ==
    \/ Deprecated(crs_view(db), c.horiz_crs_auth_name, c.horiz_crs_code)
    \/ Deprecated(db.vertical_crs, c.vertical_crs_auth_name, c.vertical_crs_code)
    \/ Deprecated(db.area, c.area_of_use_auth_name, c.area_of_use_code)

AdmissibleCompound(c) ==
    ComponentsOfTheirKinds(c) /\ (c.deprecated = 0 => ~OnDeprecatedComponent(c))

\* C15: every stored compound CRS has a horizontal component that crs_view
\* holds with type geographic 2D or projected and a vertical component that
\* is a vertical CRS, and a non-deprecated one has no deprecated component
\* or area; the insert of any other compound CRS is rejected.
C15_ComponentsOfTheirKindsAndCurrent ==
    /\ \A c \in db.compound_crs : AdmissibleCompound(c)
    /\ (last.table = "compound_crs" /\ ~AdmissibleCompound(last.row)) => last.err # OK

\* A non-deprecated compound CRS on a projected and a vertical CRS is
\* stored, and the insert of one whose horizontal component is geocentric,
\* under a free key, has just been rejected by the step on its type.
C15_Witness ==
    /\ \E c \in db.compound_crs :
           /\ c.deprecated = 0
           /\ \E h \in Holders(crs_view(db), c.horiz_crs_auth_name, c.horiz_crs_code) :
                  h.type = "projected"
    /\ last.table = "compound_crs"
    /\ \E h \in Holders(crs_view(db), last.row.horiz_crs_auth_name, last.row.horiz_crs_code) :
           h.type = "geocentric"
    /\ last.err = "insert on compound_crs violates constraint: horiz_crs must be equal to 'geographic 2D' or 'projected'"

-----------------------------------------------------------------------------
(* SpecConversionParams: conversions, through the view and straight into   *)
(* conversion_table, whose parameter slots are full, empty and partial.    *)

LatitudeOfOrigin == Param("8801", "Latitude of natural origin", 0, "9102")

\* A full slot, an empty one, and slots with some of their fields set.
SlotInputs ==
    {LatitudeOfOrigin, NoParam,
     [LatitudeOfOrigin EXCEPT !.value = NullNum, !.uom_auth_name = NULL, !.uom_code = NULL],
     [NoParam EXCEPT !.value = 1],
     [LatitudeOfOrigin EXCEPT !.code = NULL],
     [LatitudeOfOrigin EXCEPT !.auth_name = NULL],
     [LatitudeOfOrigin EXCEPT !.uom_code = NULL],
     [LatitudeOfOrigin EXCEPT !.uom_code = "9999"]}

SlotConversionInputs ==
    {ConversionRow(Epsg(code), Epsg("1262"), TransverseMercator, <<slot1, slot2>>, 0) :
        code \in {"16031", "16032"}, slot1 \in SlotInputs,
        slot2 \in {NoParam, [NoParam EXCEPT !.uom_auth_name = "EPSG"]}}

InitConversionParams == db = ReferenceLoaded /\ last = NoStatement

NextConversionParams ==
    \/ InsertConversion(SlotConversionInputs)
    \/ InsertConversionTable({ConversionTableRow(c) : c \in SlotConversionInputs})

SpecConversionParams == InitConversionParams /\ [][NextConversionParams]_vars

SlotFull(p) ==
    /\ p.auth_name # NULL /\ p.code # NULL /\ p.value # NullNum
    /\ p.uom_auth_name # NULL /\ p.uom_code # NULL

SlotEmpty(p) ==
    /\ p.auth_name = NULL /\ p.code = NULL /\ p.value = NullNum
    /\ p.uom_auth_name = NULL /\ p.uom_code = NULL

InsertsConversion == last.table \in {"conversion", "conversion_table"}

\* C16 as stated: each of the 7 parameter slots of a stored conversion has
\* all of its fields set or all of them NULL, and the insert of a conversion
\* with a partially filled slot is rejected.
C16_AsStated ==
    /\ \A c \in db.conversion_table : \A i \in 1..7 : SlotFull(c.param[i]) \/ SlotEmpty(c.param[i])
    /\ (InsertsConversion /\ \E i \in 1..7 : ~(SlotFull(last.row.param[i]) \/ SlotEmpty(last.row.param[i])))
           => last.err # OK

\* The unit reference of the slot names no stored unit.
UnknownUnit(p) ==
    Present(p.uom_auth_name, p.uom_code)
        /\ Holders(db.unit_of_measure, p.uom_auth_name, p.uom_code) = {}

\* C16: the fields of a parameter slot are checked one by one, not as a
\* group: in every stored conversion a unit reference with both columns set
\* names a stored unit, and an insert with a unit reference that names none
\* is rejected; an insert through the view conversion of a slot whose
\* parameter authority is set and whose parameter code or name is NULL is
\* rejected.
C16_SlotFieldsCheckedOneByOne ==
    /\ \A c \in db.conversion_table : \A i \in 1..7 : ~UnknownUnit(c.param[i])
    /\ (InsertsConversion /\ \E i \in 1..7 : UnknownUnit(last.row.param[i])) => last.err # OK
    /\ (/\ last.table = "conversion"
        /\ \E i \in 1..7 :
               /\ last.row.param[i].auth_name # NULL
               /\ last.row.param[i].code = NULL \/ last.row.param[i].name = NULL)
           => last.err # OK

\* A conversion with a parameter reference and neither value nor unit in its
\* first slot is stored, and the insert through the view of one whose first
\* slot has a parameter authority and no parameter code has just been
\* rejected.
C16_Witness ==
    /\ \E c \in db.conversion_table :
           /\ c.param[1].auth_name # NULL /\ c.param[1].code # NULL
           /\ c.param[1].value = NullNum /\ c.param[1].uom_auth_name = NULL
    /\ last.table = "conversion"
    /\ last.row.param[1].auth_name # NULL /\ last.row.param[1].code = NULL
    /\ last.err = "NOT NULL constraint failed: conversion_param.code"

-----------------------------------------------------------------------------
(* SpecConversionMethod: conversions through the view, and methods         *)
(* straight into conversion_method, with registered and unregistered       *)
(* (auth_name, code, name) triples.                                        *)

\* Triples of the list of conversion_method_insert_trigger.
RegisteredMethods ==
    {TransverseMercator,
     <<"EPSG", "9808", "Transverse Mercator (South Orientated)">>,
     <<"PROJ", "mill", "PROJ mill">>}

\* Triples that are not: a registered code under another name, a registered
\* text cut at other places, an unknown method, and no method.
UnregisteredMethods ==
    {<<"EPSG", "9807", "Transverse Mercator (South Orientated)">>,
     <<"EPSG", "9807_Transverse", "Mercator">>,
     <<"EPSG_9807", "Transverse Mercator", "Transverse Mercator">>,
     <<"PROJ", "utm", "Universal Transverse Mercator">>,
     <<NULL, NULL, NULL>>}

MethodConversionInputs ==
    {ConversionRow(Epsg(code), Epsg("1262"), method, <<>>, 0) :
        code \in {"16031", "16032"}, method \in RegisteredMethods \cup UnregisteredMethods}

ConversionMethodInputs ==
    {[auth_name |-> method[1], code |-> method[2], name |-> method[3]] :
        method \in RegisteredMethods \cup UnregisteredMethods}

InitConversionMethod == db = ReferenceLoaded /\ last = NoStatement

NextConversionMethod ==
    \/ InsertConversion(MethodConversionInputs)
    \/ InsertConversionMethod(ConversionMethodInputs)

SpecConversionMethod == InitConversionMethod /\ [][NextConversionMethod]_vars

\* The method triple of a row of the view conversion.
MethodOf(c) == <<c.method_auth_name, c.method_code, c.method_name>>

\* C17: every stored conversion method is a registered triple, and the
\* insert through the view conversion of a conversion whose method triple is
\* not registered is rejected and stores neither the method nor the
\* conversion.
C17_MethodsAreRegistered ==
    [][/\ \A m \in db'.conversion_method : <<m.auth_name, m.code, m.name>> \in RegisteredMethods
       /\ (last'.table = "conversion" /\ MethodOf(last'.row) \notin RegisteredMethods)
              => (last'.err # OK /\ db' = db)]_vars

\* A conversion of a registered method is stored with its method, and the
\* insert through the view of a conversion of that method's code under
\* another name has just been rejected by the list.
C17_Witness ==
    /\ \E c \in conversion(db) : MethodOf(c) = TransverseMercator
    /\ \E m \in db.conversion_method : <<m.auth_name, m.code, m.name>> = TransverseMercator
    /\ last.table = "conversion"
    /\ MethodOf(last.row) = <<"EPSG", "9807", "Transverse Mercator (South Orientated)">>
    /\ Holders(db.conversion_table, last.row.auth_name, last.row.code) = {}
    /\ last.err = "insert on conversion violates constraint: method should be known"

-----------------------------------------------------------------------------
(* SpecLinks: aliases, supersessions and deprecations of objects, while    *)
(* the objects they name are being inserted.                               *)

\* The latitude axis of the coordinate system EPSG:6422 (abbrev and
\* orientation, which no rule reads, are left out).
LatitudeAxis ==
    [auth_name |-> "EPSG", code |-> "106", coordinate_system_auth_name |-> "EPSG",
     coordinate_system_code |-> "6422", coordinate_system_order |-> 1,
     uom_auth_name |-> "EPSG", uom_code |-> "9102"]

\* ReferenceLoaded, the geodetic CRS EPSG:4326 and an axis.
LinksLoaded == Load(ReferenceLoaded, << <<"geodetic_crs", Wgs84>>, <<"axis", LatitudeAxis>> >>)

AliasRow(table_name, code, alt_name) ==
    [table_name |-> table_name, auth_name |-> "EPSG", code |-> code, alt_name |-> alt_name]

AliasInputs ==
    {AliasRow("geodetic_crs", "4326", "WGS84"), AliasRow("geodetic_crs", "4267", "NAD27"),
     AliasRow("ellipsoid", "4326", "WGS84"), AliasRow("axis", "106", "Lat"),
     AliasRow(NULL, "4326", "WGS84"), AliasRow("geodetic_crs", "4326", "W")}

SupersessionRow(superseded_table_name, superseded_code, replacement_table_name,
                replacement_code) ==
    [superseded_table_name |-> superseded_table_name, superseded_auth_name |-> "EPSG",
     superseded_code |-> superseded_code, replacement_table_name |-> replacement_table_name,
     replacement_auth_name |-> "EPSG", replacement_code |-> replacement_code]

SupersessionInputs ==
    {SupersessionRow("geodetic_crs", "4267", "geodetic_crs", "4326"),
     SupersessionRow("geodetic_crs", "4326", "geodetic_crs", "4269"),
     SupersessionRow("geodetic_crs", "4269", "geodetic_crs", "4326"),
     SupersessionRow("geodetic_datum", "6326", "geodetic_crs", "4326"),
     SupersessionRow("geodetic_crs", "6326", "geodetic_crs", "4326")}

DeprecationRow(table_name, deprecated_code, replacement_code) ==
    [table_name |-> table_name, deprecated_auth_name |-> "EPSG",
     deprecated_code |-> deprecated_code, replacement_auth_name |-> "EPSG",
     replacement_code |-> replacement_code]

DeprecationInputs ==
    {DeprecationRow("geodetic_crs", "4267", "4326"),
     DeprecationRow("geodetic_crs", "4326", "4326"),
     DeprecationRow("geodetic_crs", "4326", "6326"),
     DeprecationRow("geodetic_datum", "4326", "6326"),
     DeprecationRow("geodetic_crs", "4326", NULL)}

InitLinks == db = LinksLoaded /\ last = NoStatement

NextLinks ==
    \/ InsertGeodeticCrs({Nad27})
    \/ InsertAliasName(AliasInputs)
    \/ InsertSupersession(SupersessionInputs)
    \/ InsertDeprecation(DeprecationInputs)

SpecLinks == InitLinks /\ [][NextLinks]_vars

LinkTables == {"alias_name", "supersession", "deprecation"}

\* The (kind, authority, code) endpoints a link names.
Endpoints(table, row) ==
    CASE table = "alias_name" -> {<<row.table_name, row.auth_name, row.code>>}
      [] table = "supersession" ->
            {<<row.superseded_table_name, row.superseded_auth_name, row.superseded_code>>,
             <<row.replacement_table_name, row.replacement_auth_name, row.replacement_code>>}
      [] table = "deprecation" ->
            {<<row.table_name, row.deprecated_auth_name, row.deprecated_code>>,
             <<row.table_name, row.replacement_auth_name, row.replacement_code>>}

\* The endpoint is a row of object_view.
InObjectView(d, endpoint) ==
    \E o \in object_view(d) :
        /\ endpoint[1] # NULL /\ o.table_name = endpoint[1]
        /\ endpoint[2] # NULL /\ o.auth_name = endpoint[2]
        /\ endpoint[3] # NULL /\ o.code = endpoint[3]

\* C18: a statement on alias_name, supersession or deprecation succeeds, and
\* a row enters one of these tables, only if every endpoint the row names
\* (the alias's target; the superseded and the replacement entry; the
\* deprecated and the replacement entry under the row's one table name) is
\* in object_view of the database the statement ran on.
C18_EndpointsExistAtInsertion ==
    [][/\ (last'.table \in LinkTables /\ last'.err = OK)
              => \A e \in Endpoints(last'.table, last'.row) : InObjectView(db, e)
       /\ \A t \in LinkTables : \A r \in db'[t] \ db[t] :
              \A e \in Endpoints(t, r) : InObjectView(db, e)]_vars

\* An alias and a deprecation of EPSG:4267 are stored, admitted once that CRS
\* existed, and a deprecation whose replacement is a datum's code is rejected.
C18_Witness ==
    /\ AliasRow("geodetic_crs", "4267", "NAD27") \in db.alias_name
    /\ DeprecationRow("geodetic_crs", "4267", "4326") \in db.deprecation
    /\ SupersessionRow("geodetic_datum", "6326", "geodetic_crs", "4326") \in db.supersession
    /\ last.table = "deprecation"
    /\ last.row = DeprecationRow("geodetic_crs", "4326", "6326")
    /\ last.err = "insert on deprecation violates constraint: replacement entry refers to unexisting code"

-----------------------------------------------------------------------------
(* SpecBatch: a batch of statements, run in any order, in which a          *)
(* concatenated operation, an alias, a supersession and a deprecation name *)
(* a Helmert transformation of the same batch.                             *)

\* CrsLoaded and a grid transformation.
BatchLoaded ==
    Load(CrsLoaded, <<
        <<"grid_transformation",
          GridTransformationRow(Epsg("1312"), Epsg("4267"), Epsg("4326"), "ntv1_can.dat", NULL,
                                0)>> >>)

\* The record of the batch that the other statements reference.
BatchHelmert == HelmertRow(Epsg("8047"), Epsg("4267"), Epsg("4326"), 0)

BatchConcatenatedInputs ==
    {ConcatenatedOperationRow(Epsg("8048"), Epsg("4267"), Epsg("4326"), step1, step2, NoRef, 0) :
        step1 \in {Epsg("8047"), Epsg("1312")}, step2 \in {Epsg("8047"), Epsg("1312")}}

BatchAliasInputs ==
    {AliasRow("helmert_transformation", "8047", "NAD27 to WGS 84"),
     AliasRow("grid_transformation", "1312", "NAD27 to WGS 84 (3)")}

BatchSupersessionInputs ==
    {SupersessionRow("grid_transformation", "1312", "helmert_transformation", "8047"),
     SupersessionRow("helmert_transformation", "8047", "grid_transformation", "1312")}

BatchDeprecationInputs ==
    {DeprecationRow("helmert_transformation", "8047", "8047"),
     DeprecationRow("grid_transformation", "1312", "1312")}

InitBatch == db = BatchLoaded /\ last = NoStatement

NextBatch ==
    \/ InsertHelmertTransformation({BatchHelmert})
    \/ InsertConcatenatedOperation(BatchConcatenatedInputs)
    \/ InsertAliasName(BatchAliasInputs)
    \/ InsertSupersession(BatchSupersessionInputs)
    \/ InsertDeprecation(BatchDeprecationInputs)

SpecBatch == InitBatch /\ [][NextBatch]_vars

\* The tables whose rows reference records that a batch may load later.
ForwardTables == LinkTables \cup {"concatenated_operation"}

\* Every record the row references is loaded in d.
Resolves(d, table, row) ==
    IF table = "concatenated_operation"
    THEN \A step \in Steps(row) \ {NoRef} :
             Holders(coordinate_operation_with_conversion_view(d), step[1], step[2]) # {}
    ELSE \A e \in Endpoints(table, row) : InObjectView(d, e)

\* The record that the row references and that is not loaded in d is the one
\* the batch loads.
PointsForward(d, table, row) ==
    /\ ~Resolves(d, table, row)
    /\ Resolves(Exec(d, "helmert_transformation", BatchHelmert), table, row)

\* C19 as stated: a row that references a record the batch has not loaded
\* yet is admitted at its insert.
C19_AsStated ==
    [][(last'.table \in ForwardTables /\ PointsForward(db, last'.table, last'.row))
           => last'.err = OK]_vars

\* C19: a concatenated operation, alias, supersession or deprecation that
\* references a record not loaded yet is rejected at its insert and nothing
\* is stored, also when the batch loads that record later; the rows that
\* enter these tables reference loaded records only.
C19_ValidatedAtInsertTime ==
    [][/\ (last'.table \in ForwardTables /\ ~Resolves(db, last'.table, last'.row))
              => (last'.err # OK /\ db' = db)
       /\ \A t \in ForwardTables : \A r \in db'[t] \ db[t] : Resolves(db, t, r)]_vars

\* The Helmert transformation of the batch is not loaded, and the
\* concatenated operation whose first step it is has just been rejected for
\* it, after the alias of the loaded grid transformation was admitted.
C19_Witness ==
    /\ db.helmert_transformation_table = {}
    /\ db.concatenated_operation = {}
    /\ AliasRow("grid_transformation", "1312", "NAD27 to WGS 84 (3)") \in db.alias_name
    /\ last.table = "concatenated_operation"
    /\ last.row = ConcatenatedOperationRow(Epsg("8048"), Epsg("4267"), Epsg("4326"),
                                           Epsg("8047"), Epsg("1312"), NoRef, 0)
    /\ PointsForward(db, last.table, last.row)
    /\ last.err = "insert on concatenated_operation violates constraint: step1(auth_name, code) must already exist in coordinate_operation_with_conversion_view"

-----------------------------------------------------------------------------
(* SpecRuleOrder: ellipsoids and areas that break none, one or several of  *)
(* the rules of their tables.                                              *)

RuleOrderEllipsoidInputs ==
    {EllipsoidRow("7030", body, uom, inv, semi_minor, 0) :
        body \in {"EARTH", "MOON"}, uom \in {"9001", "9102"},
        inv \in {NullNum, 298}, semi_minor \in {NullNum, 6356752}}

RuleOrderAreaInputs ==
    {AreaRow("1262", lat, lon, 0) :
        lat \in {<<5, 10>>, <<10, 5>>, <<95, 95>>, <<95, 91>>},
        lon \in {<<0 - 10, 10>>, <<10, 0 - 10>>}}

InitRuleOrder == db = EmptyDb /\ last = NoStatement

NextRuleOrder ==
    \/ InsertUnitOfMeasure({Metre, Degree})
    \/ InsertEllipsoid(RuleOrderEllipsoidInputs)
    \/ InsertArea(RuleOrderAreaInputs)

SpecRuleOrder == InitRuleOrder /\ [][NextRuleOrder]_vars

UnitRuleMessage == "insert on ellipsoid violates constraint: uom should be of type 'length'"

LatitudeRuleMessage == "insert on area violates constraint: south_lat <= north_lat"

LongitudeRuleMessage ==
    "insert on area violates constraint: west_lon <= east_lon OR (east_lon + 360 - west_lon <= 200)"

\* The unit of the ellipsoid is stored and is not a length.
UnitNotLength(d, e) ==
    \E u \in Holders(d.unit_of_measure, e.uom_auth_name, e.uom_code) : u.type # "length"

\* south_lat and north_lat are set and out of order.
LatitudesOutOfOrder(a) ==
    a.south_lat # NullNum /\ a.north_lat # NullNum /\ a.south_lat > a.north_lat

\* west_lon and east_lon are set, out of order, and the way round from west
\* to east is more than 200 degrees.
LongitudesOutOfOrder(a) ==
    /\ a.west_lon # NullNum /\ a.east_lon # NullNum
    /\ a.west_lon > a.east_lon /\ a.east_lon + 360 - a.west_lon > 200

\* The message the rules of the table, taken in their order, give the row of
\* the last statement: that of the first rule it breaks; a row that breaks
\* none of them gets none of their messages.
FirstBrokenRule ==
    CASE last.table = "ellipsoid" ->
            IF BothOrNeither(last.row) THEN {EllipsoidRuleMessage}
            ELSE IF UnitNotLength(db, last.row) THEN {UnitRuleMessage}
            ELSE {last.err} \ {EllipsoidRuleMessage, UnitRuleMessage}
      [] last.table = "area" ->
            IF LatitudesOutOfOrder(last.row) THEN {LatitudeRuleMessage}
            ELSE IF LongitudesOutOfOrder(last.row) THEN {LongitudeRuleMessage}
            ELSE {last.err} \ {LatitudeRuleMessage, LongitudeRuleMessage}
      [] last.table \notin {"ellipsoid", "area"} -> {last.err}

\* C20: the violation reported for an ellipsoid or an area is that of the
\* first rule of its table that the row breaks: the shape rule before the
\* unit rule, the latitude rule before the longitude rule, and both before
\* the constraints of the table.
C20_FirstFailingRuleReported == last.err \in FirstBrokenRule

\* Degree is stored, and an ellipsoid in degrees with neither shape parameter
\* and an unknown body has just been rejected with the shape rule's message.
C20_Witness ==
    /\ Degree \in db.unit_of_measure
    /\ db.area # {}
    /\ last.table = "ellipsoid"
    /\ BothOrNeither(last.row) /\ UnitNotLength(db, last.row)
    /\ last.row.celestial_body_code = "MOON"
    /\ last.err = EllipsoidRuleMessage

\* An area with latitudes and longitudes both out of order has just been
\* rejected with the latitude rule's message.
C20_WitnessArea ==
    /\ last.table = "area"
    /\ LatitudesOutOfOrder(last.row) /\ LongitudesOutOfOrder(last.row)
    /\ last.err = LatitudeRuleMessage

-----------------------------------------------------------------------------
(* SpecRollback: conversions and Helmert transformations inserted through  *)
(* their views, some of them rejected after the statement's triggers have  *)
(* written a method or a parameter.                                        *)

RollbackConversionInputs ==
    {ConversionRow(key, Epsg("1262"), method, params, dep) :
        key \in {Epsg("1173"), Epsg("16031"), Epsg("16032")}, dep \in {0, 1},
        method \in {TransverseMercator, <<"PROJ", "utm", "Universal Transverse Mercator">>},
        params \in {<<>>, <<LatitudeOfOrigin>>,
                    <<LatitudeOfOrigin, [LatitudeOfOrigin EXCEPT !.code = "8802",
                                                                 !.uom_code = "9999"]>>}}

RollbackHelmertInputs ==
    {HelmertRow(key, Epsg("4267"), Epsg("4326"), 0) : key \in {Epsg("1312"), Epsg("8047")}}

InitRollback == db = OperationsLoaded /\ last = NoStatement

NextRollback ==
    \/ InsertConversion(RollbackConversionInputs)
    \/ InsertHelmertTransformation(RollbackHelmertInputs)

SpecRollback == InitRollback /\ [][NextRollback]_vars

\* The method and the named parameters of a row of the view conversion.
MethodAndParams(c) ==
    [method |-> <<c.method_auth_name, c.method_code, c.method_name>>,
     params |-> {<<c.param[i].auth_name, c.param[i].code, c.param[i].name>> :
                    i \in {j \in DOMAIN c.param : c.param[j].auth_name # NULL}}]

\* The conversion is stored with its method and its parameters.
StoredWhole(d, c) ==
    /\ ConversionTableRow(c) \in d.conversion_table
    /\ \E m \in d.conversion_method :
           <<m.auth_name, m.code, m.name>> = MethodAndParams(c).method
    /\ \A p \in MethodAndParams(c).params :
           \E q \in d.conversion_param : <<q.auth_name, q.code, q.name>> = p

-----------------------------------------------------------------------------
(* SpecAuthorityList: objects of several kinds under the authorities EPSG, *)
(* ESRI and PROJ.                                                          *)

Authorities == {"EPSG", "ESRI", "PROJ"}

AuthorityLoaded == Load(ReferenceLoaded, << <<"geodetic_crs", Wgs84>> >>)

AuthorityConversionInputs ==
    {ConversionRow(<<auth_name, "16031">>, Epsg("1262"), TransverseMercator, <<>>, 0) :
        auth_name \in Authorities}

AuthorityGeodeticCrsInputs ==
    {[Nad27 EXCEPT !.auth_name = auth_name] : auth_name \in Authorities}

AuthorityGridInputs ==
    {GridTransformationRow(<<auth_name, "1312">>, Epsg("4326"), Epsg("4326"), "conus", NULL, 0) :
        auth_name \in Authorities}

AuthorityAxisInputs ==
    {[LatitudeAxis EXCEPT !.auth_name = auth_name] : auth_name \in Authorities}

InitAuthorityList == db = AuthorityLoaded /\ last = NoStatement

NextAuthorityList ==
    \/ InsertConversion(AuthorityConversionInputs)
    \/ InsertGeodeticCrs(AuthorityGeodeticCrsInputs)
    \/ InsertGridTransformation(AuthorityGridInputs)
    \/ InsertAxis(AuthorityAxisInputs)

SpecAuthorityList == InitAuthorityList /\ [][NextAuthorityList]_vars

\* The authorities of the stored units, bodies, ellipsoids, areas, prime
\* meridians, datums, axes, CRSs, conversions, transformations and
\* concatenated operations.
StoredAuthorities ==
    {r.auth_name : r \in UNION {db[t] : t \in
        {"unit_of_measure", "celestial_body", "ellipsoid", "area", "prime_meridian",
         "geodetic_datum", "vertical_datum", "axis", "geodetic_crs", "projected_crs",
         "vertical_crs", "compound_crs", "conversion_table", "helmert_transformation_table",
         "grid_transformation", "other_transformation", "concatenated_operation"}}}

\* C22 as stated: authority_list is the set of the authorities of all stored
\* objects, conversions included.
C22_AsStated == authority_list(db) = StoredAuthorities

\* The authorities of the stored objects other than conversions are all in
\* authority_list, and nothing else is.
C22_AllButConversions ==
    authority_list(db)
        = {r.auth_name : r \in UNION {db[t] : t \in
              {"unit_of_measure", "celestial_body", "ellipsoid", "area", "prime_meridian",
               "geodetic_datum", "vertical_datum", "axis", "geodetic_crs", "projected_crs",
               "vertical_crs", "compound_crs", "helmert_transformation_table",
               "grid_transformation", "other_transformation", "concatenated_operation"}}}

-----------------------------------------------------------------------------
(* The operation resolver, find_operations, over the views of the          *)
(* database.  A candidate is a chain: the tuple of the rows of             *)
(* coordinate_operation_view that are its legs.  A conversion has no       *)
(* source or target CRS of its own and is no candidate.                    *)

\* The texts the resolver compares, in lexicographic order.
SortedTexts ==
    <<"1100", "1173", "1312", "1313", "8048", "8049", "EPSG", "ESRI", "PROJ">>

TextRank(text) == CHOOSE i \in 1..Len(SortedTexts) : SortedTexts[i] = text

\* k1 comes before k2 in the lexicographic order of tuples of numbers; a
\* proper prefix comes before its extensions.
RECURSIVE LexLess(_, _)
LexLess(k1, k2) ==
    IF k2 = <<>> THEN FALSE
    ELSE IF k1 = <<>> THEN TRUE
    ELSE IF Head(k1) # Head(k2) THEN Head(k1) < Head(k2)
    ELSE LexLess(Tail(k1), Tail(k2))

\* Step 1: the operations whose source and target are the request's, in
\* either direction; a concatenated operation in its own direction only.
DirectCandidates(d, source, target) ==
    {<<o>> : o \in
        {o \in coordinate_operation_view(d) :
            \/ /\ <<o.source_crs_auth_name, o.source_crs_code>> = source
               /\ <<o.target_crs_auth_name, o.target_crs_code>> = target
            \/ /\ o.table_name # "concatenated_operation"
               /\ <<o.source_crs_auth_name, o.source_crs_code>> = target
               /\ <<o.target_crs_auth_name, o.target_crs_code>> = source}}

\* The datum of a geodetic CRS; NoRef for a CRS that has none.
DatumOf(d, crs) ==
    LET rows == {g \in Lookup(d.geodetic_crs, crs[1], crs[2]) : g.datum_auth_name # NULL}
    IN  IF rows = {} THEN NoRef
        ELSE LET g == CHOOSE g \in rows : TRUE IN <<g.datum_auth_name, g.datum_code>>

\* The hubs that geodetic_datum_preferred_hub gives a datum.
PreferredHubs(d, datum) ==
    {<<h.hub_auth_name, h.hub_code>> :
        h \in {h \in d.geodetic_datum_preferred_hub :
                  <<h.src_auth_name, h.src_code>> = datum}}

\* The hub hops the search may take.
MaxHubHops == 1

\* A variant that leaves it to the path to end the search.
RECURSIVE SearchWithoutHopLimit(_, _, _, _, _)
SearchWithoutHopLimit(d, source, target, path, hops) ==
    LET direct == DirectCandidates(d, source, target)
        ends == {DatumOf(d, source), DatumOf(d, target)}
    IN  IF direct # {} THEN direct
        ELSE IF NoRef \in ends THEN {}
        ELSE LET hubs == UNION {PreferredHubs(d, datum) : datum \in ends} \ (path \cup ends)
                 via == {<<g.auth_name, g.code>> :
                            g \in {g \in d.geodetic_crs :
                                      <<g.datum_auth_name, g.datum_code>> \in hubs}}
             IN  UNION {{a \o b :
                           a \in SearchWithoutHopLimit(d, source, c, path \cup ends, hops + 1),
                           b \in SearchWithoutHopLimit(d, c, target, path \cup ends, hops + 1)} :
                           c \in via}

\* Steps 1 and 2: the direct candidates; without one, and within the hub
\* hops allowed, the chains through a CRS of a preferred hub of either datum,
\* each leg found by the same search one hop deeper.  A hub that is a datum
\* already on the path is abandoned.
RECURSIVE Search(_, _, _, _, _)
Search(d, source, target, path, hops) ==
    LET direct == DirectCandidates(d, source, target)
        ends == {DatumOf(d, source), DatumOf(d, target)}
    IN  IF direct # {} THEN direct
        ELSE IF hops >= MaxHubHops \/ NoRef \in ends THEN {}
        ELSE LET hubs == UNION {PreferredHubs(d, datum) : datum \in ends} \ (path \cup ends)
                 via == {<<g.auth_name, g.code>> :
                            g \in {g \in d.geodetic_crs :
                                      <<g.datum_auth_name, g.datum_code>> \in hubs}}
             IN  UNION {{a \o b : a \in Search(d, source, c, path \cup ends, hops + 1),
                                  b \in Search(d, c, target, path \cup ends, hops + 1)} :
                           c \in via}

Candidates(d, source, target) == Search(d, source, target, {}, 0)

\* The overlap of two intervals of whole degrees.
IntervalOverlap(lo1, hi1, lo2, hi2) ==
    LET lo == IF lo1 > lo2 THEN lo1 ELSE lo2
        hi == IF hi1 < hi2 THEN hi1 ELSE hi2
    IN  IF hi > lo THEN hi - lo ELSE 0

\* The overlap of the area of use of an operation with the area of
\* interest <<south, north, west, east>>; an area without bounds has none.
AreaOverlap(d, o, interest) ==
    LET areas == Lookup(d.area, o.area_of_use_auth_name, o.area_of_use_code)
    IN  IF areas = {} THEN 0
        ELSE LET a == CHOOSE a \in areas : TRUE
             IN  IF NullNum \in {a.south_lat, a.north_lat, a.west_lon, a.east_lon} THEN 0
                 ELSE IntervalOverlap(a.south_lat, a.north_lat, interest[1], interest[2])
                      * (IF a.west_lon <= a.east_lon
                         THEN IntervalOverlap(a.west_lon, a.east_lon, interest[3], interest[4])
                         ELSE IntervalOverlap(a.west_lon, 180, interest[3], interest[4])
                              + IntervalOverlap(0 - 180, a.east_lon, interest[3], interest[4]))

NoInterest == <<NullNum, NullNum, NullNum, NullNum>>

Min(numbers) == CHOOSE n \in numbers : \A m \in numbers : n <= m

Max(numbers) == CHOOSE n \in numbers : \A m \in numbers : n >= m

Legs(chain) == {chain[i] : i \in DOMAIN chain}

\* The accuracy of a chain: the sum of its legs', unknown if a leg's is.
RECURSIVE ChainAccuracy(_)
ChainAccuracy(chain) ==
    IF chain = <<>> THEN 0 ELSE AddN(Head(chain).accuracy, ChainAccuracy(Tail(chain)))

ChainDeprecated(chain) == \E o \in Legs(chain) : o.deprecated # 0

ChainOverlap(d, chain, interest) == Min({AreaOverlap(d, o, interest) : o \in Legs(chain)})

\* Step 3: the candidates the options keep.
Filtered(d, chains, options) ==
    {c \in chains :
        /\ options.include_deprecated \/ ~ChainDeprecated(c)
        /\ options.area_of_interest = NoInterest
              \/ ChainOverlap(d, c, options.area_of_interest) > 0
        /\ options.accuracy_ceiling = NullNum
              \/ IsTrue(LeN(ChainAccuracy(c), options.accuracy_ceiling))}

\* The row of authority_to_authority_preference for the pair, the more
\* specific key first; the empty list without one.
DefaultPreference(d, source, target) ==
    LET keys == <<<<source[1], target[1]>>, <<source[1], "any">>, <<"any", target[1]>>,
                  <<"any", "any">>>>
        rows(k) == {p \in d.authority_to_authority_preference :
                       <<p.source_auth_name, p.target_auth_name>> = k}
        found == {i \in 1..4 : rows(keys[i]) # {}}
    IN  IF found = {} THEN <<>>
        ELSE (CHOOSE p \in rows(keys[Min(found)]) : TRUE).allowed_authorities

NoOverride == <<>>

ResolvedPreference(d, source, target, options) ==
    IF options.authority_preference # NoOverride THEN options.authority_preference
    ELSE DefaultPreference(d, source, target)

\* The place of an authority in the preference list, where 'any' stands
\* for every authority; after the list for one it does not name.
PreferenceRank(preference, auth_name) ==
    LET places == {i \in 1..Len(preference) : preference[i] \in {auth_name, "any"}}
    IN  IF places = {} THEN Len(preference) + 1 ELSE Min(places)

RECURSIVE ChainKey(_)
ChainKey(chain) ==
    IF chain = <<>> THEN <<>>
    ELSE <<TextRank(Head(chain).auth_name), TextRank(Head(chain).code)>>
             \o ChainKey(Tail(chain))

\* A variant that ranks by accuracy as ORDER BY accuracy does, NULL first.
RankKeyNullFirst(d, chain, preference, interest) ==
    <<Max({PreferenceRank(preference, o.auth_name) : o \in Legs(chain)}),
      IF ChainAccuracy(chain) = NullNum THEN 0 ELSE 1,
      IF ChainAccuracy(chain) = NullNum THEN 0 ELSE ChainAccuracy(chain),
      IF interest = NoInterest THEN 0 ELSE 0 - ChainOverlap(d, chain, interest),
      IF ChainDeprecated(chain) THEN 1 ELSE 0>>
        \o ChainKey(chain)

\* Step 4: the criteria (a) to (e) of the ranking as one tuple; a chain
\* takes the worst place of its legs' authorities.
RankKey(d, chain, preference, interest) ==
    <<Max({PreferenceRank(preference, o.auth_name) : o \in Legs(chain)}),
      IF ChainAccuracy(chain) = NullNum THEN 1 ELSE 0,
      IF ChainAccuracy(chain) = NullNum THEN 0 ELSE ChainAccuracy(chain),
      IF interest = NoInterest THEN 0 ELSE 0 - ChainOverlap(d, chain, interest),
      IF ChainDeprecated(chain) THEN 1 ELSE 0>>
        \o ChainKey(chain)

\* c1 is ranked before c2.
RankedBefore(d, c1, c2, preference, interest) ==
    LexLess(RankKey(d, c1, preference, interest), RankKey(d, c2, preference, interest))

\* The chains in the order of the ranking: a chain that none of the rest is
\* ranked before, then the rest.
RECURSIVE Ranked(_, _, _, _)
Ranked(d, chains, preference, interest) ==
    IF chains = {} THEN <<>>
    ELSE LET first == CHOOSE c \in chains :
                          \A o \in chains : ~RankedBefore(d, o, c, preference, interest)
         IN  <<first>> \o Ranked(d, chains \ {first}, preference, interest)

CrsNotFoundError == "CrsNotFound"

find_operations(d, source, target, options) ==
    IF Lookup(crs_view(d), source[1], source[2]) = {}
           \/ Lookup(crs_view(d), target[1], target[2]) = {}
    THEN CrsNotFoundError
    ELSE Ranked(d, Filtered(d, Candidates(d, source, target), options),
                ResolvedPreference(d, source, target, options), options.area_of_interest)

\* A call of find_operations: the database is read, and the request and the
\* result are left in last.
FindOperations(calls) ==
    \E call \in calls :
        /\ db' = db
        /\ last' = [table |-> "find_operations",
                    row |-> [source |-> call[1], target |-> call[2], options |-> call[3]],
                    err |-> OK,
                    result |-> find_operations(db, call[1], call[2], call[3])]

-----------------------------------------------------------------------------
(* SpecResolver: transformations between three geodetic CRSs on three      *)
(* datums and authority preferences being inserted, and calls of           *)
(* find_operations in between.                                             *)

\* An area of use with bounds: the conterminous United States.
UnitedStates == AreaRow("1323", <<24, 50>>, <<0 - 125, 0 - 66>>, 0)

Nad27OnNad27 == [Nad27 EXCEPT !.datum_code = "6267"]

Nad83 ==
    GeodeticCrsRow(Epsg("4269"), "geographic 2D", Epsg("6422"), Epsg("6269"), Epsg("1262"),
                   NULL, 0)

PreferredHubRow(src, hub) ==
    [src_auth_name |-> "EPSG", src_code |-> src, hub_auth_name |-> "EPSG", hub_code |-> hub]

\* ReferenceLoaded, the datums EPSG:6267 and EPSG:6269 and a CRS on each of
\* the three datums.
DatumsLoaded ==
    Load(ReferenceLoaded, <<
        <<"area", UnitedStates>>,
        <<"geodetic_datum", GeodeticDatumRow("6267", "7030", "8901", "1262", 0)>>,
        <<"geodetic_datum", GeodeticDatumRow("6269", "7030", "8901", "1262", 0)>>,
        <<"geodetic_crs", Wgs84>>,
        <<"geodetic_crs", Nad27OnNad27>>,
        <<"geodetic_crs", Nad83>> >>)

\* DatumsLoaded, and EPSG:6269 as the preferred hub of EPSG:6267.
ResolverLoaded ==
    Load(DatumsLoaded, <<
        <<"geodetic_datum_preferred_hub", PreferredHubRow("6267", "6269")>> >>)

ResolverGridInputs ==
    {[GridTransformationRow(Epsg("1312"), Epsg("4267"), Epsg("4326"), "conus", NULL, 0)
         EXCEPT !.accuracy = 5],
     [GridTransformationRow(Epsg("1313"), Epsg("4267"), Epsg("4269"), "conus", NULL, 0)
         EXCEPT !.area_of_use_code = "1323"]}

ResolverHelmertInputs ==
    {HelmertRow(Epsg("1173"), Epsg("4267"), Epsg("4326"), 0),
     [HelmertRow(Epsg("1312"), Epsg("4267"), Epsg("4326"), 0) EXCEPT !.accuracy = 5],
     [HelmertRow(Epsg("8049"), Epsg("4269"), Epsg("4326"), 0) EXCEPT !.accuracy = NullNum]}

ResolverOtherInputs ==
    {OtherTransformationRow(<<"ESRI", "1173">>, Epsg("4326"), Epsg("4267"), 0),
     [OtherTransformationRow(Epsg("1100"), Epsg("4267"), Epsg("4326"), 0)
         EXCEPT !.accuracy = NullNum],
     OtherTransformationRow(Epsg("8048"), Epsg("4269"), Epsg("4326"), 0)}

AuthorityPreferenceInputs ==
    {[source_auth_name |-> "EPSG", target_auth_name |-> "EPSG",
      allowed_authorities |-> <<"ESRI", "EPSG">>],
     [source_auth_name |-> "any", target_auth_name |-> "any",
      allowed_authorities |-> <<"PROJ", "any">>]}

DefaultOptions ==
    [include_deprecated |-> FALSE, area_of_interest |-> NoInterest,
     accuracy_ceiling |-> NullNum, authority_preference |-> NoOverride]

\* <<source, target, options>>
Calls ==
    {<<Epsg("4267"), Epsg("4326"), DefaultOptions>>,
     <<Epsg("4267"), Epsg("4326"),
       [DefaultOptions EXCEPT !.include_deprecated = TRUE,
                              !.area_of_interest = <<30, 40, 0 - 100, 0 - 90>>,
                              !.authority_preference = <<"ESRI", "any">>]>>,
     <<Epsg("4326"), Epsg("4267"), [DefaultOptions EXCEPT !.accuracy_ceiling = 3]>>,
     <<Epsg("4267"), Epsg("4267"), DefaultOptions>>,
     <<Epsg("9999"), Epsg("4326"), DefaultOptions>>}

InitResolver == db = ResolverLoaded /\ last = NoStatement

NextResolver ==
    \/ InsertGridTransformation(ResolverGridInputs)
    \/ InsertHelmertTransformation(ResolverHelmertInputs)
    \/ InsertOtherTransformation(ResolverOtherInputs)
    \/ InsertAuthorityPreference(AuthorityPreferenceInputs)
    \/ FindOperations(Calls)

SpecResolver == InitResolver /\ [][NextResolver]_vars

\* The last statement was a call of find_operations that found its CRSs.
Resolved == last.table = "find_operations" /\ last.result # CrsNotFoundError

\* The candidates the call of last ranked, and the order it ranked them in.
LastCandidates ==
    Filtered(db, Candidates(db, last.row.source, last.row.target), last.row.options)

LastBefore(c1, c2) ==
    RankedBefore(db, c1, c2,
                 ResolvedPreference(db, last.row.source, last.row.target, last.row.options),
                 last.row.options.area_of_interest)

\* The (authority, code) of the legs of a chain.
LegKeys(chain) == [i \in DOMAIN chain |-> <<chain[i].auth_name, chain[i].code>>]

Place(c) == CHOOSE i \in DOMAIN last.result : last.result[i] = c

\* The place of the candidate's authorities in the preference list of the
\* call of last.
LastPreferenceRank(c) ==
    Max({PreferenceRank(ResolvedPreference(db, last.row.source, last.row.target,
                                           last.row.options), o.auth_name) : o \in Legs(c)})

\* C24: of two candidates of a call with the same authority-preference rank,
\* the one with the smaller accuracy value is ranked first, and one with a
\* known accuracy is ranked before one whose accuracy is unknown.
C24_AccuracyOrder ==
    Resolved =>
        \A c1, c2 \in LastCandidates :
            LastPreferenceRank(c1) = LastPreferenceRank(c2) =>
                /\ (/\ ChainAccuracy(c1) # NullNum /\ ChainAccuracy(c2) # NullNum
                    /\ ChainAccuracy(c1) < ChainAccuracy(c2)) => Place(c1) < Place(c2)
                /\ (ChainAccuracy(c1) # NullNum /\ ChainAccuracy(c2) = NullNum)
                       => Place(c1) < Place(c2)

\* A call ranked three operations of the same preference rank: ESRI:1173
\* of accuracy 1 first, EPSG:1312 of accuracy 5 second, and EPSG:1100 of
\* unknown accuracy last, the reverse of their order by (authority, code).
C24_Witness ==
    /\ Resolved
    /\ Len(last.result) = 3
    /\ \A c1, c2 \in LastCandidates : LastPreferenceRank(c1) = LastPreferenceRank(c2)
    /\ LegKeys(last.result[1]) = <<<<"ESRI", "1173">>>> /\ last.result[1][1].accuracy = 1
    /\ LegKeys(last.result[2]) = <<Epsg("1312")>> /\ last.result[2][1].accuracy = 5
    /\ LegKeys(last.result[3]) = <<Epsg("1100")>> /\ last.result[3][1].accuracy = NullNum

-----------------------------------------------------------------------------
(* SpecHubs: preferred hubs, among them a hub's way back and a datum that  *)
(* is its own hub, being inserted between four datums, and calls of        *)
(* find_operations in between.                                             *)

Etrs89 ==
    GeodeticCrsRow(Epsg("4258"), "geographic 2D", Epsg("6422"), Epsg("6258"), Epsg("1262"),
                   NULL, 0)

\* DatumsLoaded, the datum EPSG:6258 and its CRS, and the transformations
\* EPSG:4267 to EPSG:4258, EPSG:4258 to EPSG:4269 and EPSG:4269 to EPSG:4326.
HubsLoaded ==
    Load(DatumsLoaded, <<
        <<"geodetic_datum", GeodeticDatumRow("6258", "7030", "8901", "1262", 0)>>,
        <<"geodetic_crs", Etrs89>>,
        <<"grid_transformation",
          GridTransformationRow(Epsg("1313"), Epsg("4267"), Epsg("4258"), "conus", NULL, 0)>>,
        <<"grid_transformation",
          GridTransformationRow(Epsg("1312"), Epsg("4258"), Epsg("4269"), "conus", NULL, 0)>>,
        <<"helmert_transformation",
          HelmertRow(Epsg("8049"), Epsg("4269"), Epsg("4326"), 0)>> >>)

\* A hub, the hub's way back, a datum that is its own hub, and a hub of the
\* hub.
PreferredHubInputs ==
    {PreferredHubRow("6267", "6269"), PreferredHubRow("6269", "6267"),
     PreferredHubRow("6267", "6267"), PreferredHubRow("6269", "6258"),
     PreferredHubRow("6267", "9999")}

\* A transformation from EPSG:4267 to the CRS of its hub, and one to
\* EPSG:4326 itself.
HubOtherInputs ==
    {OtherTransformationRow(Epsg("1100"), Epsg("4267"), Epsg("4269"), 0),
     OtherTransformationRow(<<"ESRI", "1173">>, Epsg("4326"), Epsg("4267"), 0)}

HubCalls ==
    {<<Epsg("4267"), Epsg("4326"), DefaultOptions>>,
     <<Epsg("4326"), Epsg("4267"), DefaultOptions>>,
     <<Epsg("4267"), Epsg("4269"), DefaultOptions>>}

InitHubs == db = HubsLoaded /\ last = NoStatement

NextHubs ==
    \/ InsertPreferredHub(PreferredHubInputs)
    \/ InsertOtherTransformation(HubOtherInputs)
    \/ FindOperations(HubCalls)

SpecHubs == InitHubs /\ [][NextHubs]_vars

\* The datums that geodetic_datum_preferred_hub makes the hub of a datum
\* that is its hub in turn, itself included.
CyclicHubs ==
    {<<h.src_auth_name, h.src_code>> :
        h \in {h \in db.geodetic_datum_preferred_hub :
                  \E back \in db.geodetic_datum_preferred_hub :
                      /\ <<back.src_auth_name, back.src_code>> = <<h.hub_auth_name, h.hub_code>>
                      /\ <<back.hub_auth_name, back.hub_code>> = <<h.src_auth_name, h.src_code>>}}

\* The chain has two legs that meet in a CRS of a preferred hub of the
\* source's or the target's datum, a datum other than these two, and each
\* leg is a direct candidate.
ThroughOneHub(chain) ==
    /\ Len(chain) = 2
    /\ \E g \in db.geodetic_crs :
           /\ <<chain[1]>> \in DirectCandidates(db, last.row.source, <<g.auth_name, g.code>>)
           /\ <<chain[2]>> \in DirectCandidates(db, <<g.auth_name, g.code>>, last.row.target)
           /\ LET ends == {DatumOf(db, last.row.source), DatumOf(db, last.row.target)}
              IN  /\ <<g.datum_auth_name, g.datum_code>> \notin ends
                  /\ \E datum \in ends :
                         <<g.datum_auth_name, g.datum_code>> \in PreferredHubs(db, datum)

\* C25: every call of find_operations returns, whatever hubs are stored, a
\* list and no error; each chain of the list is a direct candidate or, when
\* the request has none, a chain of exactly two direct legs through one hub
\* that is not a datum of the request.
C25_OneHubHop ==
    Resolved =>
        /\ last.result \in Seq(LastCandidates)
        /\ \A i \in DOMAIN last.result :
               \/ <<last.result[i][1]>> = last.result[i]
                    /\ last.result[i] \in DirectCandidates(db, last.row.source, last.row.target)
               \/ DirectCandidates(db, last.row.source, last.row.target) = {}
                    /\ ThroughOneHub(last.result[i])

\* EPSG:6267 and EPSG:6269 are each other's hub, and a call found the one
\* chain from EPSG:4267 through EPSG:4269 to EPSG:4326.
C25_Witness ==
    /\ Resolved
    /\ Epsg("6267") \in CyclicHubs /\ Epsg("6269") \in CyclicHubs
    /\ last.row.source = Epsg("4267") /\ last.row.target = Epsg("4326")
    /\ Len(last.result) = 1
    /\ LegKeys(last.result[1]) = <<Epsg("1100"), Epsg("8049")>>

\* EPSG:6267 is its own hub and has no other, and a call that has no direct
\* candidate returned the empty list.
C25_WitnessOwnHub ==
    /\ Resolved
    /\ db.geodetic_datum_preferred_hub = {PreferredHubRow("6267", "6267")}
    /\ last.row.source = Epsg("4267") /\ last.row.target = Epsg("4326")
    /\ DirectCandidates(db, last.row.source, last.row.target) = {}
    /\ DOMAIN last.result = {}

-----------------------------------------------------------------------------
(* SpecVerticalCrs: vertical CRSs on a current and on a deprecated         *)
(* vertical datum, under keys that are and are not the key of a datum.     *)

VerticalCrsInputs ==
    {VerticalCrsRow(key, Epsg("6499"), datum, Epsg("1262"), dep) :
        key \in {Epsg("5701"), Epsg("5100"), Epsg("5101")},
        datum \in {Epsg("5100"), Epsg("5101")}, dep \in {0, 1}}

InitVerticalCrs == db = DeprecatedLoaded /\ last = NoStatement

NextVerticalCrs == InsertVerticalCrs(VerticalCrsInputs)

SpecVerticalCrs == InitVerticalCrs /\ [][NextVerticalCrs]_vars

DatumDeprecatedMessage ==
    "insert on vertical_crs violates constraint: datum must not be deprecated when vertical_crs is not deprecated"

\* C26: a non-deprecated vertical CRS on a deprecated vertical datum is
\* rejected, and no stored non-deprecated vertical CRS has a deprecated
\* vertical datum.
C26_AsStated ==
    /\ (/\ last.table = "vertical_crs"
        /\ last.row.deprecated = 0
        /\ ExistsDeprecated(db.vertical_datum, last.row.datum_auth_name, last.row.datum_code))
           => last.err # OK
    /\ \A v \in db.vertical_crs :
           v.deprecated = 0
               => ~ExistsDeprecated(db.vertical_datum, v.datum_auth_name, v.datum_code)

\* What the trigger does: the rule fires when a deprecated vertical CRS is
\* stored under the key the new row gives as its datum, whatever the state
\* of the vertical datum.
C26_RuleReadsVerticalCrs ==
    (last.table = "vertical_crs" /\ last.err = DatumDeprecatedMessage)
        => /\ last.row.deprecated = 0
           /\ ExistsDeprecated(db.vertical_crs, last.row.datum_auth_name, last.row.datum_code)

\* The rule rejected a vertical CRS whose vertical datum is not deprecated.
C26_RejectedOnCurrentDatum ==
    /\ last.table = "vertical_crs" /\ last.err = DatumDeprecatedMessage
    /\ ~ExistsDeprecated(db.vertical_datum, last.row.datum_auth_name, last.row.datum_code)

-----------------------------------------------------------------------------
(* SpecOperationDeprecation: operations of EPSG and of ESRI between a      *)
(* current and a deprecated CRS, on a current and on a deprecated area.    *)

Bessel ==
    GeodeticCrsRow(Epsg("4135"), "geographic 2D", Epsg("6422"), Epsg("6326"), Epsg("1262"),
                   NULL, 1)

\* OperationsLoaded, a deprecated area and a deprecated geodetic CRS.
OperationDeprecationLoaded ==
    Load(OperationsLoaded, <<
        <<"area", AreaRow("1263", NoBounds, NoBounds, 1)>>,
        <<"geodetic_crs", Bessel>> >>)

\* The operation on the area EPSG:1263.
OnDeprecatedArea(row) == [row EXCEPT !.area_of_use_code = "1263"]

\* From a row builder of (key, source, target, deprecated): the rows of
\* either authority with a deprecated source or target, on either area.
DeprecationRows(Row(_, _, _, _), code) ==
    LET current == {Row(<<auth, code>>, ends[1], ends[2], 0) :
                       auth \in {"EPSG", "ESRI"},
                       ends \in {<<Epsg("4135"), Epsg("4326")>>, <<Epsg("4326"), Epsg("4135")>>}}
    IN  current \cup {OnDeprecatedArea(row) : row \in current}

\* A deprecated row of EPSG between deprecated CRSs on the deprecated area.
DeprecatedRows(Row(_, _, _, _), code) ==
    {OnDeprecatedArea(Row(Epsg(code), Epsg("4135"), Epsg("4135"), 1))}

DeprecationGridRow(key, source, target, dep) ==
    GridTransformationRow(key, source, target, "conus", NULL, dep)

DeprecationConcatenatedRow(key, source, target, dep) ==
    ConcatenatedOperationRow(key, source, target, Epsg("1173"), Epsg("1312"), NoRef, dep)

InitOperationDeprecation == db = OperationDeprecationLoaded /\ last = NoStatement

NextOperationDeprecation ==
    \/ InsertHelmertTransformation(DeprecationRows(HelmertRow, "8047")
                                     \cup DeprecatedRows(HelmertRow, "8051"))
    \/ InsertGridTransformation(DeprecationRows(DeprecationGridRow, "8048"))
    \/ InsertOtherTransformation(DeprecationRows(OtherTransformationRow, "8049")
                                   \cup DeprecatedRows(OtherTransformationRow, "8053"))
    \/ InsertConcatenatedOperation(DeprecationRows(DeprecationConcatenatedRow, "8050"))

SpecOperationDeprecation == InitOperationDeprecation /\ [][NextOperationDeprecation]_vars

\* The last statement inserted a non-deprecated operation of one of the four
\* kinds.
CurrentOperationInserted ==
    /\ last.table \in {"helmert_transformation", "grid_transformation",
                       "other_transformation", "concatenated_operation"}
    /\ last.row.deprecated = 0

LastEndDeprecated ==
    \/ ExistsDeprecated(crs_view(db), last.row.source_crs_auth_name, last.row.source_crs_code)
    \/ ExistsDeprecated(crs_view(db), last.row.target_crs_auth_name, last.row.target_crs_code)

LastAreaDeprecated ==
    ExistsDeprecated(db.area, last.row.area_of_use_auth_name, last.row.area_of_use_code)

LastKeyTaken ==
    last.err = OperationExistsMessage(last.table)

EndDeprecatedMessages ==
    {"insert on " \o last.table \o " violates constraint: " \o end
         \o "_crs must not be deprecated when " \o last.table \o " is not deprecated" :
        end \in {"source", "target"}}

AreaDeprecatedMessage ==
    "insert on " \o last.table
        \o " violates constraint: area_of_use must not be deprecated when "
        \o last.table \o " is not deprecated"

\* The stored operations under the key of the last statement.
LastStored ==
    Lookup(db[OperationTable(last.table)], last.row.auth_name, last.row.code)

\* C27: a non-deprecated Helmert, grid, other or concatenated operation with
\* a deprecated source or target CRS is rejected by the CRS rule unless its
\* authority is ESRI, and an ESRI operation on a current area under a free
\* key is stored; on a deprecated area the operation is rejected whatever
\* its authority, an ESRI one by the area rule.
C27_EsriExemption ==
    (CurrentOperationInserted /\ LastEndDeprecated /\ ~LastKeyTaken) =>
        /\ last.row.auth_name # "ESRI" => last.err \in EndDeprecatedMessages
        /\ (last.row.auth_name = "ESRI" /\ ~LastAreaDeprecated)
               => /\ last.err = OK
                  /\ LastStored # {}
        /\ LastAreaDeprecated
               => /\ last.err # OK
                  /\ LastStored = {}
                  /\ last.row.auth_name = "ESRI" => last.err = AreaDeprecatedMessage

\* An ESRI concatenated operation with a deprecated source or target has
\* just been rejected by the area rule, while each of the other three kinds
\* stores an ESRI operation with a deprecated source or target.
C27_Witness ==
    /\ last.table = "concatenated_operation" /\ last.row.deprecated = 0
    /\ LastEndDeprecated
    /\ last.row.auth_name = "ESRI" /\ last.err = AreaDeprecatedMessage
    /\ \A t \in {"helmert_transformation_table", "grid_transformation",
                 "other_transformation"} :
           \E r \in db[t] :
               /\ r.auth_name = "ESRI" /\ r.deprecated = 0
               /\ \/ ExistsDeprecated(crs_view(db), r.source_crs_auth_name, r.source_crs_code)
                  \/ ExistsDeprecated(crs_view(db), r.target_crs_auth_name, r.target_crs_code)

\* An ESRI concatenated operation with a deprecated source or target has
\* just been stored.
C27_WitnessConcatenated ==
    /\ last.table = "concatenated_operation" /\ last.row.deprecated = 0
    /\ LastEndDeprecated
    /\ last.row.auth_name = "ESRI" /\ last.err = OK /\ LastStored # {}

-----------------------------------------------------------------------------
(* SpecCycles: supersession and deprecation links between two stored CRSs, *)
(* in both directions and from a CRS to itself.                            *)

CycleSupersessionInputs ==
    {SupersessionRow("geodetic_crs", from, "geodetic_crs", to) :
        from \in {"4326", "4267"}, to \in {"4326", "4267", "4269"}}

CycleDeprecationInputs ==
    {DeprecationRow("geodetic_crs", from, to) :
        from \in {"4326", "4267"}, to \in {"4326", "4267", "4269"}}

InitCycles == db = CrsLoaded /\ last = NoStatement

NextCycles ==
    \/ InsertSupersession(CycleSupersessionInputs)
    \/ InsertDeprecation(CycleDeprecationInputs)

SpecCycles == InitCycles /\ [][NextCycles]_vars

\* The entries a link leads from and to: <<table, authority, code>>.
LinkFrom(table, link) ==
    IF table = "supersession"
    THEN <<link.superseded_table_name, link.superseded_auth_name, link.superseded_code>>
    ELSE <<link.table_name, link.deprecated_auth_name, link.deprecated_code>>

LinkTo(table, link) ==
    IF table = "supersession"
    THEN <<link.replacement_table_name, link.replacement_auth_name, link.replacement_code>>
    ELSE <<link.table_name, link.replacement_auth_name, link.replacement_code>>

\* The link leads to its own start, or the link back is stored.
ClosesCycle(table, link) ==
    \/ LinkFrom(table, link) = LinkTo(table, link)
    \/ \E back \in db[table] :
           /\ LinkFrom(table, back) = LinkTo(table, link)
           /\ LinkTo(table, back) = LinkFrom(table, link)

\* C28: a supersession or deprecation link between existing entries is
\* admitted and stored, also when it leads back to where a stored link came
\* from or to its own start.
C28_CyclesAdmitted ==
    (/\ last.table \in {"supersession", "deprecation"}
     /\ ExistsObject(db, LinkFrom(last.table, last.row)[1], LinkFrom(last.table, last.row)[2],
                     LinkFrom(last.table, last.row)[3])
     /\ ExistsObject(db, LinkTo(last.table, last.row)[1], LinkTo(last.table, last.row)[2],
                     LinkTo(last.table, last.row)[3]))
        => last.err = OK /\ last.row \in db[last.table]

\* EPSG:4326 is superseded by EPSG:4267, and the link back has just been
\* admitted; a deprecation of EPSG:4326 in favour of itself is stored.
C28_Witness ==
    /\ last.table = "supersession" /\ last.err = OK
    /\ last.row = SupersessionRow("geodetic_crs", "4267", "geodetic_crs", "4326")
    /\ db.supersession = {SupersessionRow("geodetic_crs", "4326", "geodetic_crs", "4267"),
                          last.row}
    /\ ClosesCycle("supersession", last.row)
    /\ DeprecationRow("geodetic_crs", "4326", "4326") \in db.deprecation

\* A supersession of EPSG:4326 by itself has just been admitted.
C28_WitnessSelfLink ==
    /\ last.table = "supersession" /\ last.err = OK
    /\ last.row = SupersessionRow("geodetic_crs", "4326", "geodetic_crs", "4326")
    /\ last.row \in db.supersession

-----------------------------------------------------------------------------
(* SpecObjects: an ellipsoid, CRSs of two kinds and a conversion, inserted *)
(* under the same two keys.                                                *)

ObjectCodes == {"7030", "4326"}

ObjectEllipsoidInputs ==
    {EllipsoidRow(code, "EARTH", "9001", 298, NullNum, dep) : code \in ObjectCodes, dep \in {0, 1}}

ObjectGeodeticCrsInputs ==
    {GeodeticCrsRow(Epsg(code), "geographic 2D", Epsg("6422"), Epsg("6326"), Epsg("1262"),
                    NULL, dep) : code \in ObjectCodes, dep \in {0, 1}}

ObjectVerticalCrsInputs ==
    {VerticalCrsRow(Epsg(code), Epsg("6499"), Epsg("5100"), Epsg("1262"), dep) :
        code \in ObjectCodes, dep \in {0, 1}}

ObjectConversionInputs ==
    {ConversionRow(Epsg(code), Epsg("1262"), TransverseMercator, <<>>, dep) :
        code \in ObjectCodes, dep \in {0, 1}}

\* ReferenceLoaded, which holds the ellipsoid EPSG:7030, and the geodetic CRS
\* EPSG:4326.
ObjectsLoaded == Load(ReferenceLoaded, << <<"geodetic_crs", Wgs84>> >>)

InitObjects == db = ObjectsLoaded /\ last = NoStatement

NextObjects ==
    \/ InsertEllipsoid(ObjectEllipsoidInputs)
    \/ InsertGeodeticCrs(ObjectGeodeticCrsInputs)
    \/ InsertVerticalCrs(ObjectVerticalCrsInputs)
    \/ InsertConversion(ObjectConversionInputs)

SpecObjects == InitObjects /\ [][NextObjects]_vars

\* The kinds under which object_view holds (auth_name, code).
KindsOf(auth_name, code) ==
    {o.table_name : o \in {o \in object_view(db) : o.auth_name = auth_name /\ o.code = code}}

\* C29: object_view holds at most one row for a table name, authority and
\* code.
C29_OneRowPerKindAndKey ==
    \A o1, o2 \in object_view(db) :
        (o1.table_name = o2.table_name /\ o1.auth_name = o2.auth_name /\ o1.code = o2.code)
            => o1 = o2

\* EPSG:7030 is an ellipsoid, a CRS and a conversion, and the insert of a
\* second, deprecated ellipsoid EPSG:7030 has just been rejected.
C29_Witness ==
    /\ {"ellipsoid", "conversion"} \subseteq KindsOf("EPSG", "7030")
    /\ KindsOf("EPSG", "7030") \cap {"geodetic_crs", "vertical_crs"} # {}
    /\ last.table = "ellipsoid" /\ last.row.code = "7030" /\ last.row.deprecated = 1
    /\ last.err = "UNIQUE constraint failed: ellipsoid.auth_name, ellipsoid.code"

-----------------------------------------------------------------------------
(* nell_h_s_inverse of nell_h.cpp: the Newton loop on lp.phi and the       *)
(* choice of the result.  A call is the statement of last; its locals are  *)
(* fields of last, pc is its position: "for" at the loop head, "if" after  *)
(* a break, "return" at the end.  Coordinates are integers, an input that  *)
(* is not a number is NaN.  The value of V is not computed: what the body  *)
(* yields is whether fabs(V) < EPS, and every outcome is taken into        *)
(* account at every iteration, but that a V computed from a NaN is a NaN   *)
(* and is never below EPS.  lp.phi is "0" at entry, "newton" after an      *)
(* iteration, or one of the two constants; lp.lam is its numerator 2 x and *)
(* its denominator.  n counts the iterations and converged records a       *)
(* break; the code has neither.                                            *)

NITER == 9

NaN == 0 - 9999

\* 0.5 * v, for an even v.
Half(v) == IF v = NaN THEN NaN ELSE v \div 2

Twice(v) == IF v = NaN THEN NaN ELSE 2 * v

\* a < b; false when either is not a number.
Less(a, b) == a # NaN /\ b # NaN /\ a < b

\* The counter after a body that counts down before it tests fabs(V).
CounterAfterBodyCountingFirst(i, small) == i - 1

\* The counter after the body: break leaves it, the loop's --i counts down.
CounterAfterBody(i, small) == IF small THEN i ELSE i - 1

\* Lines 26-32: the entry.
NellHInverse(inputs) ==
    \E xy \in inputs :
        /\ last.table = "nell_h_s_inverse" => last.pc = "return"
        /\ db' = db
        /\ last' = [table |-> "nell_h_s_inverse", row |-> [x |-> xy[1], y |-> xy[2]],
                    err |-> OK, pc |-> "for", p |-> Half(xy[2]), i |-> NITER,
                    phi |-> "0", lam |-> [num |-> 0, den |-> "1"],
                    n |-> 0, converged |-> FALSE]

\* Lines 32-37: one pass of the body.
NellHIterate ==
    /\ last.table = "nell_h_s_inverse" /\ last.pc = "for"
    /\ last.i # 0
    /\ \E small \in BOOLEAN :
           /\ small => last.p # NaN
           /\ db' = db
           /\ last' = [last EXCEPT !.phi = "newton",
                                   !.n = @ + 1,
                                   !.converged = small,
                                   !.i = CounterAfterBody(@, small),
                                   !.pc = IF small THEN "if" ELSE "for"]

\* Lines 38-44: after the loop.
NellHReturn ==
    /\ last.table = "nell_h_s_inverse"
    /\ last.pc = "if" \/ (last.pc = "for" /\ last.i = 0)
    /\ db' = db
    /\ last' = IF last.i = 0
               THEN [last EXCEPT !.phi = IF Less(last.p, 0) THEN "-M_HALFPI" ELSE "M_HALFPI",
                                 !.lam = [num |-> Twice(last.row.x), den |-> "1"],
                                 !.pc = "return"]
               ELSE [last EXCEPT !.lam = [num |-> Twice(last.row.x),
                                          den |-> "1 + cos(lp.phi)"],
                                 !.pc = "return"]

-----------------------------------------------------------------------------
(* SpecNellH: calls of nell_h_s_inverse, each run to its end.              *)

NellHInputs == {<<x, y>> : x \in {0 - 3, 0, 3}, y \in {0 - 4, 0 - 2, 0, 2, 4, NaN}}

InitNellH == db = EmptyDb /\ last = NoStatement

NextNellH ==
    \/ NellHInverse(NellHInputs)
    \/ NellHIterate
    \/ NellHReturn

\* A call that can take a step takes it.
SpecNellH ==
    InitNellH /\ [][NextNellH]_vars /\ WF_vars(NellHIterate) /\ WF_vars(NellHReturn)

InNellH == last.table = "nell_h_s_inverse"

\* What holds of a call at every position.
NellHBounded ==
    InNellH =>
        /\ last.n <= NITER
        /\ last.pc = "for" => last.i = NITER - last.n
        /\ last.pc = "return" =>
               IF last.converged
               THEN /\ last.i # 0
                    /\ last.phi = "newton"
                    /\ last.lam = [num |-> 2 * last.row.x, den |-> "1 + cos(lp.phi)"]
               ELSE /\ last.n = NITER
                    /\ last.phi = IF last.row.y # NaN /\ last.row.y < 0 THEN "-M_HALFPI"
                                  ELSE "M_HALFPI"
                    /\ last.lam = [num |-> 2 * last.row.x, den |-> "1"]

\* C30: a call of nell_h_s_inverse returns, after at most NITER passes of the
\* body; when a pass found fabs(V) < EPS, the ninth included, the counter is
\* not 0 and lam is 2 x / (1 + cos(phi)); when none of NITER passes did, phi
\* is -M_HALFPI for y < 0 and M_HALFPI otherwise, and lam is 2 x.
C30_TerminatesWithin ==
    /\ []NellHBounded
    /\ (InNellH /\ last.pc = "for") ~> (InNellH /\ last.pc = "return")

\* The ninth pass found fabs(V) < EPS, and the call returned with the
\* counter at 1.
C30_Witness ==
    /\ InNellH /\ last.pc = "return"
    /\ last.converged /\ last.n = NITER /\ last.i = 1
    /\ last.lam.den = "1 + cos(lp.phi)"

\* No pass found fabs(V) < EPS, and the call returned -M_HALFPI for y < 0.
C30_WitnessFallback ==
    /\ InNellH /\ last.pc = "return"
    /\ ~last.converged /\ last.n = NITER /\ last.i = 0
    /\ last.row.y < 0 /\ last.row.y # NaN /\ last.phi = "-M_HALFPI"

====
